---------------------------- MODULE Spec2Model ----------------------------
(***************************************************************************)
(* Statement normalisation and categorisation pipeline of FinanceDashboard *)
(* (faster/helpers, faster/transactions).                                  *)
(*                                                                         *)
(* Text is modelled as a sequence of one-character strings, so that        *)
(* str.strip, str.lower, substring tests and the regular expressions of    *)
(* the source are computed and not assumed.  Confidences and similarities  *)
(* are integers in hundredths (1.0 is 100, 0.95 is 95); a NULL confidence  *)
(* is NoConf.                                                              *)
(***************************************************************************)
EXTENDS Integers, Sequences, FiniteSets, TLC

\* ----------------------------------------------------------------- text

UpperSeq ==
  <<"A","B","C","D","E","F","G","H","I","J","K","L","M",
    "N","O","P","Q","R","S","T","U","V","W","X","Y","Z">>

LowerSeq ==
  <<"a","b","c","d","e","f","g","h","i","j","k","l","m",
    "n","o","p","q","r","s","t","u","v","w","x","y","z">>

SeqRange(s) ==
  {s[i] : i \in 1..Len(s)}

UpperLetters ==
  SeqRange(UpperSeq)

\* the regular-expression class [a-z]
LowerLetters ==
  SeqRange(LowerSeq)

\* the regular-expression class \d
Digits ==
  {"0","1","2","3","4","5","6","7","8","9"}

\* the regular-expression class \s, and what str.strip() removes
SpaceChars ==
  {" ", "\t", "\n", "\r"}

\* the regular-expression class \w
WordChars ==
  UpperLetters \cup LowerLetters \cup Digits \cup {"_"}

\* str.lower() on one character
LowerChar(c) ==
  IF c \in UpperLetters
    THEN LowerSeq[CHOOSE i \in 1..Len(UpperSeq) : UpperSeq[i] = c]
    ELSE c

\* str.lower()
Lower(s) ==
  [i \in 1..Len(s) |-> LowerChar(s[i])]

RECURSIVE LStrip(_)
LStrip(s) ==
  IF s # <<>> /\ Head(s) \in SpaceChars THEN LStrip(Tail(s)) ELSE s

RECURSIVE RStrip(_)
RStrip(s) ==
  IF s # <<>> /\ s[Len(s)] \in SpaceChars THEN RStrip(SubSeq(s, 1, Len(s) - 1)) ELSE s

\* str.strip()
Strip(s) ==
  RStrip(LStrip(s))

\* the Python test  `sub in s`
Contains(s, sub) ==
  \E i \in 0..(Len(s) - Len(sub)) : SubSeq(s, i + 1, i + Len(sub)) = sub

\* ---------------------------------------------------- regular expressions
\* A pattern is a sequence of atoms.  A position p in 0..Len(text) stands
\* for "p characters consumed".

WB ==
  [k |-> "wb", lits |-> {}, cls |-> {}]

BOL ==
  [k |-> "bol", lits |-> {}, cls |-> {}]

EOL ==
  [k |-> "eol", lits |-> {}, cls |-> {}]

Alt(ls) ==
  [k |-> "alt", lits |-> ls, cls |-> {}]

Lit(l) ==
  Alt({l})

One(c) ==
  [k |-> "one", lits |-> {}, cls |-> c]

Plus(c) ==
  [k |-> "plus", lits |-> {}, cls |-> c]

Star(c) ==
  [k |-> "star", lits |-> {}, cls |-> c]

IsWordAt(text, i) ==
  i \in 1..Len(text) /\ text[i] \in WordChars

\* the positions reachable from a position of P by matching one atom
AtomStep(atom, text, P) ==
  CASE atom.k = "wb"   -> {p \in P : IsWordAt(text, p) # IsWordAt(text, p + 1)}
    [] atom.k = "bol"  -> {p \in P : p = 0}
    [] atom.k = "eol"  -> {p \in P : \/ p = Len(text)
                                     \/ p = Len(text) - 1 /\ text[Len(text)] = "\n"}
    [] atom.k = "alt"  -> {q \in 0..Len(text) :
                            \E p \in P : \E l \in atom.lits :
                              q = p + Len(l) /\ SubSeq(text, p + 1, q) = l}
    [] atom.k = "one"  -> {q \in 1..Len(text) : (q - 1) \in P /\ text[q] \in atom.cls}
    [] atom.k = "plus" -> {q \in 1..Len(text) :
                            \E p \in P : p < q /\ \A i \in (p + 1)..q : text[i] \in atom.cls}
    [] atom.k = "star" -> {q \in 0..Len(text) :
                            \E p \in P : p <= q /\ \A i \in (p + 1)..q : text[i] \in atom.cls}

RECURSIVE MatchEnds(_, _, _, _)
MatchEnds(pat, k, text, P) ==
  IF k > Len(pat) \/ P = {}
    THEN P
    ELSE MatchEnds(pat, k + 1, text, AtomStep(pat[k], text, P))

\* re.search(pattern, text) finds a match
Search(pat, text) ==
  MatchEnds(pat, 1, text, 0..Len(text)) # {}

\* ------------------------------------------------ the texts of the model

\* ""
T_Empty ==
  <<>>

\* "Payment from Anna"
T_Payment ==
  <<"P","a","y","m","e","n","t"," ","f","r","o","m"," ","A","n","n","a">>

\* "Joes Diner"
T_Joes ==
  <<"J","o","e","s"," ","D","i","n","e","r">>

\* "Joes Diner 2"
T_Joes2 ==
  <<"J","o","e","s"," ","D","i","n","e","r"," ","2">>

\* " Joes Diner "
T_JoesPadded ==
  <<" ","J","o","e","s"," ","D","i","n","e","r"," ">>

\* "Coop Pronto Basel"
T_CoopPronto ==
  <<"C","o","o","p"," ","P","r","o","n","t","o"," ","B","a","s","e","l">>

\* "coop pronto basel"
T_CoopProntoLower ==
  <<"c","o","o","p"," ","p","r","o","n","t","o"," ","b","a","s","e","l">>

\* "Coop Pronto Basel 4051"
T_CoopProntoLong ==
  <<"C","o","o","p"," ","P","r","o","n","t","o"," ","B","a","s","e","l"," ","4","0","5","1">>

\* "Coop City"
T_CoopCity ==
  <<"C","o","o","p"," ","C","i","t","y">>

\* "Coop City Bern"
T_CoopCityBern ==
  <<"C","o","o","p"," ","C","i","t","y"," ","B","e","r","n">>

\* "TWINT: , Hans Müller +41791234567"
T_TwintPerson ==
  <<"T","W","I","N","T",":"," ",","," ","H","a","n","s"," ",
    "M","ü","l","l","e","r"," ","+","4","1","7","9","1","2","3","4","5","6","7">>

\* "SBB Ticket"
T_SbbTicket ==
  <<"S","B","B"," ","T","i","c","k","e","t">>

\* "Joes Bar"
T_JoesBar ==
  <<"J","o","e","s"," ","B","a","r">>

Texts ==
  {T_Empty, T_Payment, T_Joes, T_Joes2, T_JoesPadded, T_CoopPronto,
   T_CoopProntoLower, T_CoopProntoLong, T_CoopCity, T_CoopCityBern, T_TwintPerson,
   T_SbbTicket, T_JoesBar}

\* "TWINT (2)"
T_Parent ==
  <<"T","W","I","N","T"," ","(","2",")">>

\* "Debit (12) "
T_ParentSpace ==
  <<"D","e","b","i","t"," ","(","1","2",")"," ">>

\* "Debit Mobile Banking (1)"
T_ParentOne ==
  <<"D","e","b","i","t"," ","M","o","b","i","l","e"," ","B","a","n","k","i","n","g",
    " ","(","1",")">>

\* the booking texts of the rows of a statement
BookingTexts ==
  {T_Parent, T_ParentSpace, T_ParentOne, T_CoopCity}

\* the texts and what str.strip() makes of them
AllTexts ==
  (Texts \cup BookingTexts) \cup {Strip(t) : t \in Texts \cup BookingTexts}

\* ------------------------------------------- SemanticCategorizer.KEYWORD_RULES

\* semantic_categorizer.py:31  r"\bexchanged to (eur|chf|usd|huf|cad)\b"
Rule_Uncounted_1 ==
  <<WB, Lit(<<"e","x","c","h","a","n","g","e","d"," ","t","o"," ">>),
    Alt({<<"e","u","r">>, <<"c","h","f">>, <<"u","s","d">>, <<"h","u","f">>,
         <<"c","a","d">>}), WB>>

\* semantic_categorizer.py:33  r"\btop-up by \*"
Rule_Uncounted_2 ==
  <<WB, Lit(<<"t","o","p","-","u","p"," ","b","y"," ","*">>)>>

\* semantic_categorizer.py:35  r"\bbalance migration\b"
Rule_Uncounted_3 ==
  <<WB, Lit(<<"b","a","l","a","n","c","e"," ","m","i","g","r","a","t","i","o","n">>), WB>>

\* semantic_categorizer.py:37  r"(payment from|transfer (to|from))\s+[a-z]"
Rule_Uncounted_4 ==
  <<Alt({<<"p","a","y","m","e","n","t"," ","f","r","o","m">>,
         <<"t","r","a","n","s","f","e","r"," ","t","o">>,
         <<"t","r","a","n","s","f","e","r"," ","f","r","o","m">>}),
    Plus(SpaceChars), One(LowerLetters)>>

\* semantic_categorizer.py:39  r"debit\s+(mobile banking|ebanking mobile|standing order|account transfer):"
Rule_Uncounted_5 ==
  <<Lit(<<"d","e","b","i","t">>), Plus(SpaceChars),
    Alt({<<"m","o","b","i","l","e"," ","b","a","n","k","i","n","g">>,
         <<"e","b","a","n","k","i","n","g"," ","m","o","b","i","l","e">>,
         <<"s","t","a","n","d","i","n","g"," ","o","r","d","e","r">>,
         <<"a","c","c","o","u","n","t"," ","t","r","a","n","s","f","e","r">>}),
    Lit(<<":">>)>>

\* semantic_categorizer.py:40  r"^revolut\s+(bank|ltd)"
Rule_Uncounted_6 ==
  <<BOL, Lit(<<"r","e","v","o","l","u","t">>), Plus(SpaceChars), Alt({<<"b","a","n","k">>, <<"l","t","d">>})>>

\* semantic_categorizer.py:42  r"debit twint:\s*,\s+[a-z\s]+\+\d+"
Rule_Uncounted_7 ==
  <<Lit(<<"d","e","b","i","t"," ","t","w","i","n","t",":">>), Star(SpaceChars), Lit(<<",">>), Plus(SpaceChars),
    Plus(LowerLetters \cup SpaceChars), Lit(<<"+">>), Plus(Digits)>>

\* semantic_categorizer.py:45  r"\b(swisscom|sunrise|upc|telecom|electricity|water|gas|energie|power|hydro|utility|bill)\b"
Rule_Utilities_1 ==
  <<WB, Alt({<<"s","w","i","s","s","c","o","m">>, <<"s","u","n","r","i","s","e">>,
           <<"u","p","c">>, <<"t","e","l","e","c","o","m">>,
           <<"e","l","e","c","t","r","i","c","i","t","y">>, <<"w","a","t","e","r">>,
           <<"g","a","s">>, <<"e","n","e","r","g","i","e">>, <<"p","o","w","e","r">>,
           <<"h","y","d","r","o">>, <<"u","t","i","l","i","t","y">>, <<"b","i","l","l">>}), WB>>

\* semantic_categorizer.py:48  r"\b(netflix|spotify|youtube|steam|twitch|gaming|playstation|xbox|disney|hulu|hbo)\b"
Rule_Leisure_1 ==
  <<WB, Alt({<<"n","e","t","f","l","i","x">>, <<"s","p","o","t","i","f","y">>,
           <<"y","o","u","t","u","b","e">>, <<"s","t","e","a","m">>,
           <<"t","w","i","t","c","h">>, <<"g","a","m","i","n","g">>,
           <<"p","l","a","y","s","t","a","t","i","o","n">>, <<"x","b","o","x">>,
           <<"d","i","s","n","e","y">>, <<"h","u","l","u">>, <<"h","b","o">>}), WB>>

\* semantic_categorizer.py:49  r"\b(cinema|movie|theater|concert|museum)\b"
Rule_Leisure_2 ==
  <<WB, Alt({<<"c","i","n","e","m","a">>, <<"m","o","v","i","e">>,
           <<"t","h","e","a","t","e","r">>, <<"c","o","n","c","e","r","t">>,
           <<"m","u","s","e","u","m">>}), WB>>

\* semantic_categorizer.py:52  r"\b(migros|coop|denner|aldi|lidl|volg|carrefour|edeka|supermarket|market|grocery)\b"
Rule_Groceries_1 ==
  <<WB, Alt({<<"m","i","g","r","o","s">>, <<"c","o","o","p">>, <<"d","e","n","n","e","r">>,
           <<"a","l","d","i">>, <<"l","i","d","l">>, <<"v","o","l","g">>,
           <<"c","a","r","r","e","f","o","u","r">>, <<"e","d","e","k","a">>,
           <<"s","u","p","e","r","m","a","r","k","e","t">>, <<"m","a","r","k","e","t">>,
           <<"g","r","o","c","e","r","y">>}), WB>>

\* semantic_categorizer.py:55  r"\b(restaurant|pizza|burger|mcdonald|starbucks|cafe|coffee|food|delivery)\b"
Rule_Dining_1 ==
  <<WB, Alt({<<"r","e","s","t","a","u","r","a","n","t">>, <<"p","i","z","z","a">>,
           <<"b","u","r","g","e","r">>, <<"m","c","d","o","n","a","l","d">>,
           <<"s","t","a","r","b","u","c","k","s">>, <<"c","a","f","e">>,
           <<"c","o","f","f","e","e">>, <<"f","o","o","d">>,
           <<"d","e","l","i","v","e","r","y">>}), WB>>

\* semantic_categorizer.py:56  r"\b(domino|kfc|subway|burger king|thai|sushi|chinese|italian)\b"
Rule_Dining_2 ==
  <<WB, Alt({<<"d","o","m","i","n","o">>, <<"k","f","c">>, <<"s","u","b","w","a","y">>,
           <<"b","u","r","g","e","r"," ","k","i","n","g">>, <<"t","h","a","i">>,
           <<"s","u","s","h","i">>, <<"c","h","i","n","e","s","e">>,
           <<"i","t","a","l","i","a","n">>}), WB>>

\* semantic_categorizer.py:59  r"\b(sbb|vbz|uber|taxi|shell|bp|chevron|fuel|gas station|charging|train|railway)\b"
Rule_Transport_1 ==
  <<WB, Alt({<<"s","b","b">>, <<"v","b","z">>, <<"u","b","e","r">>, <<"t","a","x","i">>,
           <<"s","h","e","l","l">>, <<"b","p">>, <<"c","h","e","v","r","o","n">>,
           <<"f","u","e","l">>, <<"g","a","s"," ","s","t","a","t","i","o","n">>,
           <<"c","h","a","r","g","i","n","g">>, <<"t","r","a","i","n">>,
           <<"r","a","i","l","w","a","y">>}), WB>>

\* semantic_categorizer.py:60  r"\b(parking|automat|petrol|diesel)\b"
Rule_Transport_2 ==
  <<WB, Alt({<<"p","a","r","k","i","n","g">>, <<"a","u","t","o","m","a","t">>,
           <<"p","e","t","r","o","l">>, <<"d","i","e","s","e","l">>}), WB>>

\* semantic_categorizer.py:63  r"\b(amazon|ebay|zalando|h&m|zara|fashion|clothing|store|shop)\b"
Rule_Shopping_1 ==
  <<WB, Alt({<<"a","m","a","z","o","n">>, <<"e","b","a","y">>,
           <<"z","a","l","a","n","d","o">>, <<"h","&","m">>, <<"z","a","r","a">>,
           <<"f","a","s","h","i","o","n">>, <<"c","l","o","t","h","i","n","g">>,
           <<"s","t","o","r","e">>, <<"s","h","o","p">>}), WB>>

\* semantic_categorizer.py:64  r"\b(digitec|galaxus|mediamarkt|electronics)\b"
Rule_Shopping_2 ==
  <<WB, Alt({<<"d","i","g","i","t","e","c">>, <<"g","a","l","a","x","u","s">>,
           <<"m","e","d","i","a","m","a","r","k","t">>,
           <<"e","l","e","c","t","r","o","n","i","c","s">>}), WB>>

\* semantic_categorizer.py:67  r"\b(booking|airbnb|hotel|flight|airline|ryanair|easyjet|swiss|lufthansa)\b"
Rule_Travel_1 ==
  <<WB, Alt({<<"b","o","o","k","i","n","g">>, <<"a","i","r","b","n","b">>,
           <<"h","o","t","e","l">>, <<"f","l","i","g","h","t">>,
           <<"a","i","r","l","i","n","e">>, <<"r","y","a","n","a","i","r">>,
           <<"e","a","s","y","j","e","t">>, <<"s","w","i","s","s">>,
           <<"l","u","f","t","h","a","n","s","a">>}), WB>>

\* semantic_categorizer.py:68  r"\b(hostel|airport|train ticket|train fare)\b"
Rule_Travel_2 ==
  <<WB, Alt({<<"h","o","s","t","e","l">>, <<"a","i","r","p","o","r","t">>,
           <<"t","r","a","i","n"," ","t","i","c","k","e","t">>,
           <<"t","r","a","i","n"," ","f","a","r","e">>}), WB>>

\* semantic_categorizer.py:71  r"\b(pharmacy|pharma|doctor|medical|dentist|hospital|clinic|health)\b"
Rule_Health_1 ==
  <<WB, Alt({<<"p","h","a","r","m","a","c","y">>, <<"p","h","a","r","m","a">>,
           <<"d","o","c","t","o","r">>, <<"m","e","d","i","c","a","l">>,
           <<"d","e","n","t","i","s","t">>, <<"h","o","s","p","i","t","a","l">>,
           <<"c","l","i","n","i","c">>, <<"h","e","a","l","t","h">>}), WB>>

\* semantic_categorizer.py:72  r"\b(dm drogerie|medicine|vitamins)\b"
Rule_Health_2 ==
  <<WB, Alt({<<"d","m"," ","d","r","o","g","e","r","i","e">>,
           <<"m","e","d","i","c","i","n","e">>, <<"v","i","t","a","m","i","n","s">>}), WB>>

\* semantic_categorizer.py:75  r"\b(wire|revolut|paypal)\b"
Rule_BankTransfer_1 ==
  <<WB, Alt({<<"w","i","r","e">>, <<"r","e","v","o","l","u","t">>,
           <<"p","a","y","p","a","l">>}), WB>>

\* KEYWORD_RULES in dictionary (insertion) order: the order _check_keyword_rules scans.
KEYWORD_RULES ==
  <<[category |-> "Uncounted", pattern |-> Rule_Uncounted_1],
    [category |-> "Uncounted", pattern |-> Rule_Uncounted_2],
    [category |-> "Uncounted", pattern |-> Rule_Uncounted_3],
    [category |-> "Uncounted", pattern |-> Rule_Uncounted_4],
    [category |-> "Uncounted", pattern |-> Rule_Uncounted_5],
    [category |-> "Uncounted", pattern |-> Rule_Uncounted_6],
    [category |-> "Uncounted", pattern |-> Rule_Uncounted_7],
    [category |-> "Utilities", pattern |-> Rule_Utilities_1],
    [category |-> "Leisure", pattern |-> Rule_Leisure_1],
    [category |-> "Leisure", pattern |-> Rule_Leisure_2],
    [category |-> "Groceries", pattern |-> Rule_Groceries_1],
    [category |-> "Dining", pattern |-> Rule_Dining_1],
    [category |-> "Dining", pattern |-> Rule_Dining_2],
    [category |-> "Transport", pattern |-> Rule_Transport_1],
    [category |-> "Transport", pattern |-> Rule_Transport_2],
    [category |-> "Shopping", pattern |-> Rule_Shopping_1],
    [category |-> "Shopping", pattern |-> Rule_Shopping_2],
    [category |-> "Travel", pattern |-> Rule_Travel_1],
    [category |-> "Travel", pattern |-> Rule_Travel_2],
    [category |-> "Health", pattern |-> Rule_Health_1],
    [category |-> "Health", pattern |-> Rule_Health_2],
    [category |-> "Bank Transfer", pattern |-> Rule_BankTransfer_1]>>

\* word lists of predict_with_context

SubscriptionWords ==
  {<<"s","u","b","s","c","r","i","p","t","i","o","n">>,
   <<"p","r","e","m","i","u","m">>,
   <<"m","o","n","t","h","l","y">>,
   <<"n","e","t","f","l","i","x">>,
   <<"s","p","o","t","i","f","y">>,
   <<"a","d","o","b","e">>}

FoodWords ==
  {<<"c","a","f","e">>,
   <<"r","e","s","t","a","u","r","a","n","t">>,
   <<"b","a","r">>,
   <<"p","i","z","z","a">>,
   <<"b","u","r","g","e","r">>,
   <<"s","t","a","r","b","u","c","k","s">>,
   <<"m","c","d","o","n","a","l","d">>}

TransportWords ==
  {<<"s","b","b">>,
   <<"v","b","z">>,
   <<"t","r","a","n","s","p","o","r","t">>,
   <<"t","a","x","i">>,
   <<"u","b","e","r">>,
   <<"t","r","a","i","n">>,
   <<"t","i","c","k","e","t">>}

StoreWords ==
  {<<"s","h","o","p">>,
   <<"s","t","o","r","e">>,
   <<"a","m","a","z","o","n">>,
   <<"g","a","l","a","x","u","s">>,
   <<"d","i","g","i","t","e","c">>}

uncounted_keywords ==
  {<<"e","x","c","h","a","n","g","e">>,
   <<"e","x","c","h","a","n","g","e","d">>,
   <<"p","a","y","m","e","n","t"," ","f","r","o","m">>,
   <<"p","a","y","m","e","n","t"," ","t","o">>,
   <<"a","c","c","o","u","n","t"," ","t","r","a","n","s","f","e","r">>,
   <<"t","r","a","n","s","f","e","r"," ","t","o">>,
   <<"t","r","a","n","s","f","e","r"," ","f","r","o","m">>,
   <<"d","e","b","i","t"," ","a","c","c","o","u","n","t"," ","t","r","a","n","s","f","e","r">>,
   <<"c","r","e","d","i","t"," ","a","c","c","o","u","n","t"," ","t","r","a","n","s","f","e","r">>,
   <<"r","e","v","o","l","u","t"," ","l","t","d">>,
   <<"r","e","v","o","l","u","t"," ","a","c","c","o","u","n","t">>,
   <<"c","u","r","r","e","n","c","y"," ","e","x","c","h","a","n","g","e">>,
   <<"i","n","t","e","r","n","a","l"," ","t","r","a","n","s","f","e","r">>,
   <<"v","a","u","l","t">>}

ExtraUncountedWords ==
  {<<"d","a","v","i","d"," ","c","o","l","o","n","n","a">>,
   <<"e","x","c","h","a","n","g","e","d"," ","t","o">>,
   <<"p","a","y","m","e","n","t"," ","f","r","o","m">>}

\* ------------------------------------------------------------ values

\* Python's None where a category is expected
None ==
  "None"

\* a NULL category_confidence (models.py: null=True)
NoConf ==
  -1

Min(S) ==
  CHOOSE i \in S : \A j \in S : i <= j

\* Python truthiness of a category value (None and "" are falsy)
Truthy(category) ==
  category \notin {None, ""}

Result(category, confidence) ==
  [category |-> category, confidence |-> confidence]

\* min(1.0, max(0.0, v))
Clamp(v) ==
  IF v > 100 THEN 100 ELSE IF v < 0 THEN 0 ELSE v

\* ----------------------------------------- the embedding backend (external)
\* model.encode followed by cosine_similarity, in hundredths, on the texts of
\* this model: symmetric, 100 for identical texts.  The values are those of an
\* arbitrary backend; one pair sits exactly on the default threshold.

SimTable ==
  {<<T_Joes, T_Joes2, 82>>,
   <<T_Joes, T_JoesBar, 70>>,
   <<T_Joes, T_CoopCityBern, 50>>,
   <<T_Joes2, T_CoopCityBern, 45>>,
   <<T_Joes, T_Payment, 30>>,
   <<T_Joes2, T_Payment, 60>>,
   <<T_Joes2, T_Empty, 55>>}

Sim(a, b) ==
  IF a = b THEN 100
  ELSE IF \E e \in SimTable : {e[1], e[2]} = {a, b}
    THEN (CHOOSE e \in SimTable : {e[1], e[2]} = {a, b})[3]
  ELSE 20

\* --------------------------------------------------- SemanticCategorizer
\* The in-memory state of one instance is a record
\*   known : merchant -> category        (self.known_merchants)
\*   emb   : the keys of self.merchant_embeddings in insertion order (the
\*           vector stored for a key is encode(key))
\*   hist  : self.correction_history (the timestamp of a record is left out:
\*           nothing reads it)
\*   adj   : self.confidence_adjustments, in hundredths
\*   model : the sentence-transformer model is loaded (self.model is not None)
\* The merchant mapping is a sequence of [key, category] in file order, the
\* order in which the dictionary is iterated.

EmptyDict ==
  [m \in {} |-> ""]

EmptyCategorizer ==
  [known |-> EmptyDict, emb |-> <<>>, hist |-> <<>>, adj |-> EmptyDict, model |-> FALSE]

\* len(key) >= 15 in _check_merchant_mapping
SubstringMinLen ==
  15

check_merchant_mapping(mapping, merchant) ==
  LET merchant_lower == Lower(merchant)
      exact == {i \in 1..Len(mapping) : mapping[i].key = merchant}
      nocase == {i \in 1..Len(mapping) : Lower(mapping[i].key) = merchant_lower}
      substr == {i \in 1..Len(mapping) :
                   /\ Len(mapping[i].key) >= SubstringMinLen
                   /\ Contains(merchant_lower, Lower(mapping[i].key))}
  IN  IF exact # {} THEN Result(mapping[Min(exact)].category, 100)
      ELSE IF nocase # {} THEN Result(mapping[Min(nocase)].category, 100)
      ELSE IF substr # {} THEN Result(mapping[Min(substr)].category, 90)
      ELSE Result(None, 0)

check_keyword_rules(merchant) ==
  LET merchant_lower == Lower(merchant)
      hits == {k \in 1..Len(KEYWORD_RULES) : Search(KEYWORD_RULES[k].pattern, merchant_lower)}
  IN  IF hits # {} THEN Result(KEYWORD_RULES[Min(hits)].category, 95)
      ELSE Result(None, 0)

\* check_keyword_rules on the texts of the model, computed once
KeywordRulesOf ==
  [t \in AllTexts |-> check_keyword_rules(t)]

\* _build_confidence_adjustments: the table is rebuilt from the whole history,
\* a later record of a merchant overwrites an earlier one
build_confidence_adjustments(hist) ==
  [m \in {hist[i].merchant : i \in 1..Len(hist)} |->
     LET mine == {i \in 1..Len(hist) : hist[i].merchant = m}
         last == CHOOSE i \in mine : \A j \in mine : j <= i
     IN  IF hist[last].predicted # hist[last].actual THEN -30 ELSE 20]

\* self.confidence_adjustments.get(merchant, 0.0)
confidence_adjustment(adj, merchant) ==
  IF merchant \in DOMAIN adj THEN adj[merchant] ELSE 0

\* What a call returns or raises: error is "" when it returned; model is the
\* instance's model flag after the call.
Returned(category, confidence, model) ==
  [category |-> category, confidence |-> confidence, error |-> "", model |-> model]

Raised(error, model) ==
  [category |-> None, confidence |-> 0, error |-> error, model |-> model]

\* predict_category with the keyword tier consulted before the merchant mapping
predict_category_KeywordFirst(c, mapping, merchant_arg, threshold, modelOk) ==
  LET merchant == Strip(merchant_arg)
      mapped == check_merchant_mapping(mapping, merchant)
      keyword == KeywordRulesOf[merchant]
      similarities == {i \in 1..Len(c.emb) : Sim(merchant, c.emb[i]) > threshold}
      best_match == Min({i \in similarities :
                          \A j \in similarities :
                            Sim(merchant, c.emb[j]) <= Sim(merchant, c.emb[i])})
      base_confidence == Sim(merchant, c.emb[best_match])
      final_confidence == Clamp(base_confidence + confidence_adjustment(c.adj, merchant))
  IN  IF Truthy(keyword.category)
        THEN Returned(keyword.category, keyword.confidence, c.model)
      ELSE IF Truthy(mapped.category)
        THEN Returned(mapped.category, mapped.confidence, c.model)
      ELSE IF merchant \in DOMAIN c.known
        THEN Returned(c.known[merchant], 100, c.model)
      ELSE Returned(None, 0, c.model)

\* predict_category without the exact lookup in known_merchants
predict_category_NoLearnedTier(c, mapping, merchant_arg, threshold, modelOk) ==
  LET merchant == Strip(merchant_arg)
      mapped == check_merchant_mapping(mapping, merchant)
      keyword == KeywordRulesOf[merchant]
      similarities == {i \in 1..Len(c.emb) : Sim(merchant, c.emb[i]) > threshold}
      best_match == Min({i \in similarities :
                          \A j \in similarities :
                            Sim(merchant, c.emb[j]) <= Sim(merchant, c.emb[i])})
      base_confidence == Sim(merchant, c.emb[best_match])
      final_confidence == Clamp(base_confidence + confidence_adjustment(c.adj, merchant))
  IN  IF Truthy(mapped.category)
        THEN Returned(mapped.category, mapped.confidence, c.model)
      ELSE IF Truthy(keyword.category)
        THEN Returned(keyword.category, keyword.confidence, c.model)
      ELSE IF c.emb = <<>>
        THEN Returned(None, 0, c.model)
      ELSE IF ~c.model /\ ~modelOk
        THEN Raised("model", FALSE)
      ELSE IF similarities = {}
        THEN Returned(None, 0, TRUE)
      ELSE IF c.emb[best_match] \notin DOMAIN c.known
        THEN Raised("KeyError", TRUE)
      ELSE Returned(c.known[c.emb[best_match]], final_confidence, TRUE)

\* predict_category with the adjustment of the best match instead of the input
predict_category_AdjustsBestMatch(c, mapping, merchant_arg, threshold, modelOk) ==
  LET merchant == Strip(merchant_arg)
      mapped == check_merchant_mapping(mapping, merchant)
      keyword == KeywordRulesOf[merchant]
      similarities == {i \in 1..Len(c.emb) : Sim(merchant, c.emb[i]) > threshold}
      best_match == Min({i \in similarities :
                          \A j \in similarities :
                            Sim(merchant, c.emb[j]) <= Sim(merchant, c.emb[i])})
      base_confidence == Sim(merchant, c.emb[best_match])
      final_confidence == Clamp(base_confidence + confidence_adjustment(c.adj, c.emb[best_match]))
  IN  IF Truthy(mapped.category)
        THEN Returned(mapped.category, mapped.confidence, c.model)
      ELSE IF Truthy(keyword.category)
        THEN Returned(keyword.category, keyword.confidence, c.model)
      ELSE IF merchant \in DOMAIN c.known
        THEN Returned(c.known[merchant], 100, c.model)
      ELSE IF c.emb = <<>>
        THEN Returned(None, 0, c.model)
      ELSE IF ~c.model /\ ~modelOk
        THEN Raised("model", FALSE)
      ELSE IF similarities = {}
        THEN Returned(None, 0, TRUE)
      ELSE IF c.emb[best_match] \notin DOMAIN c.known
        THEN Raised("KeyError", TRUE)
      ELSE Returned(c.known[c.emb[best_match]], final_confidence, TRUE)

\* modelOk: whether SentenceTransformer(model_name) can be constructed when
\* _get_model needs it
predict_category(c, mapping, merchant_arg, threshold, modelOk) ==
  LET merchant == Strip(merchant_arg)
      mapped == check_merchant_mapping(mapping, merchant)
      keyword == KeywordRulesOf[merchant]
      similarities == {i \in 1..Len(c.emb) : Sim(merchant, c.emb[i]) > threshold}
      best_match == Min({i \in similarities :
                          \A j \in similarities :
                            Sim(merchant, c.emb[j]) <= Sim(merchant, c.emb[i])})
      base_confidence == Sim(merchant, c.emb[best_match])
      final_confidence == Clamp(base_confidence + confidence_adjustment(c.adj, merchant))
  IN  IF Truthy(mapped.category)
        THEN Returned(mapped.category, mapped.confidence, c.model)
      ELSE IF Truthy(keyword.category)
        THEN Returned(keyword.category, keyword.confidence, c.model)
      ELSE IF merchant \in DOMAIN c.known
        THEN Returned(c.known[merchant], 100, c.model)
      ELSE IF c.emb = <<>>
        THEN Returned(None, 0, c.model)
      ELSE IF ~c.model /\ ~modelOk
        THEN Raised("model", FALSE)
      ELSE IF similarities = {}
        THEN Returned(None, 0, TRUE)
      ELSE IF c.emb[best_match] \notin DOMAIN c.known
        THEN Raised("KeyError", TRUE)
      ELSE Returned(c.known[c.emb[best_match]], final_confidence, TRUE)

\* the fixed increments of predict_with_context
ContextBoost(merchant, amount, base_category) ==
  LET merchant_lower == Lower(merchant)
      HasWord(words) == \E word \in words : Contains(merchant_lower, word)
  IN  IF amount = <<>> THEN 0
      ELSE IF amount[1] < 30 /\ HasWord(SubscriptionWords)
        THEN (IF base_category \in {"Utilities", "Shopping"} THEN 20 ELSE 0)
      ELSE IF amount[1] < 20 /\ HasWord(FoodWords)
        THEN (IF base_category = "Dining" THEN 15 ELSE 0)
      ELSE IF amount[1] < 50 /\ HasWord(TransportWords)
        THEN (IF base_category = "Transport" THEN 20 ELSE 0)
      ELSE IF amount[1] > 50 /\ HasWord(StoreWords)
        THEN (IF base_category = "Shopping" THEN 10 ELSE 0)
      ELSE 0

\* predict_with_context without min(1.0, ..)
predict_with_context_Unclamped(c, mapping, merchant, amount, threshold, modelOk) ==
  LET AtMostOne(final_confidence) ==
        final_confidence
      Boosted(base) ==
        IF base.error # "" THEN base
        ELSE IF base.category = None THEN Returned(None, 0, base.model)
        ELSE Returned(base.category,
                      AtMostOne(base.confidence
                                  + ContextBoost(merchant, amount, base.category)),
                      base.model)
  IN  Boosted(predict_category(c, mapping, merchant, threshold, modelOk))

\* amount is <<>> for None and <<a>> for the number a
predict_with_context(c, mapping, merchant, amount, threshold, modelOk) ==
  LET AtMostOne(final_confidence) ==
        IF final_confidence > 100 THEN 100 ELSE final_confidence
      Boosted(base) ==
        IF base.error # "" THEN base
        ELSE IF base.category = None THEN Returned(None, 0, base.model)
        ELSE Returned(base.category,
                      AtMostOne(base.confidence
                                  + ContextBoost(merchant, amount, base.category)),
                      base.model)
  IN  Boosted(predict_category(c, mapping, merchant, threshold, modelOk))

\* str.strip() on a category name; of the category names of this model only
\* PaddedDining carries surrounding whitespace
PaddedDining ==
  " Dining "

StripCategory(category) ==
  IF category = PaddedDining THEN "Dining" ELSE category

\* add_known_merchant that keeps the merchant as it was given
add_known_merchant_KeepsWhitespace(c, merchant_arg, category_arg, modelOk) ==
  LET merchant == merchant_arg
      category == StripCategory(category_arg)
      known == (merchant :> category) @@ c.known
      emb == IF \E i \in 1..Len(c.emb) : c.emb[i] = merchant
               THEN c.emb
               ELSE Append(c.emb, merchant)
  IN  IF ~c.model /\ ~modelOk
        THEN [c |-> [c EXCEPT !.known = known], error |-> "model"]
        ELSE [c |-> [c EXCEPT !.known = known, !.emb = emb, !.model = TRUE],
              error |-> ""]

\* add_known_merchant without its final save: [c, error]
add_known_merchant(c, merchant_arg, category_arg, modelOk) ==
  LET merchant == Strip(merchant_arg)
      category == StripCategory(category_arg)
      known == (merchant :> category) @@ c.known
      emb == IF \E i \in 1..Len(c.emb) : c.emb[i] = merchant
               THEN c.emb
               ELSE Append(c.emb, merchant)
  IN  IF ~c.model /\ ~modelOk
        THEN [c |-> [c EXCEPT !.known = known], error |-> "model"]
        ELSE [c |-> [c EXCEPT !.known = known, !.emb = emb, !.model = TRUE],
              error |-> ""]

Correction(merchant, predicted, actual, confidence) ==
  [merchant |-> merchant, predicted |-> predicted, actual |-> actual,
   confidence |-> confidence]

\* ------------------------------------------------------ the state files
\* A file is [st, data] with st "missing", "corrupt" (what a torn write
\* leaves: it cannot be parsed) or "ok".  json and pickle give back the
\* dictionary of strings, the key order and the list they were given.

MissingFile ==
  [st |-> "missing", data |-> <<>>]

CorruptFile ==
  [st |-> "corrupt", data |-> <<>>]

OkFile(data) ==
  [st |-> "ok", data |-> data]

NoFiles ==
  [merchants |-> MissingFile, embeddings |-> MissingFile, corrections |-> MissingFile]

\* SemanticCategorizer.__init__ with _load_data: a file that is missing or
\* fails to parse leaves the attribute at its empty default
load_data(disk) ==
  [known |-> IF disk.merchants.st = "ok" THEN disk.merchants.data ELSE EmptyDict,
   emb   |-> IF disk.embeddings.st = "ok" THEN disk.embeddings.data ELSE <<>>,
   hist  |-> IF disk.corrections.st = "ok" THEN disk.corrections.data ELSE <<>>,
   adj   |-> IF disk.corrections.st = "ok"
               THEN build_confidence_adjustments(disk.corrections.data)
               ELSE EmptyDict,
   model |-> FALSE]

\* _save_data stopped (by an exception or by the death of the process) after
\* `progress` of its steps; open(.., "w") truncates before anything is written:
\*   0 nothing         1 merchants torn     2 merchants written
\*   3 embeddings torn 4 embeddings written 5 corrections torn
\*   SaveComplete: all three written
SaveComplete ==
  6

save_data(c, disk, progress) ==
  [merchants   |-> IF progress = 0 THEN disk.merchants
                   ELSE IF progress = 1 THEN CorruptFile
                   ELSE OkFile(c.known),
   embeddings  |-> IF progress <= 2 THEN disk.embeddings
                   ELSE IF progress = 3 THEN CorruptFile
                   ELSE OkFile(c.emb),
   corrections |-> IF progress <= 4 THEN disk.corrections
                   ELSE IF progress = 5 THEN CorruptFile
                   ELSE OkFile(c.hist)]

\* record_correction: [c, disk, error]; error "model" when the embedding
\* model cannot be loaded, "io" when _save_data does not complete
record_correction(c, disk, merchant, predicted, actual, confidence, modelOk, progress) ==
  LET appended == [c EXCEPT !.hist = Append(c.hist,
                     Correction(merchant, predicted, actual, confidence))]
      Rebuilt(x) == [x EXCEPT !.adj = build_confidence_adjustments(x.hist)]
      Save(added) ==
        IF added.error # ""
          THEN [c |-> added.c, disk |-> disk, error |-> added.error]
          ELSE [c |-> Rebuilt(added.c),
                disk |-> save_data(added.c, disk, progress),
                error |-> IF progress = SaveComplete THEN "" ELSE "io"]
  IN  Save(add_known_merchant(appended, merchant, actual, modelOk))

\* finance_utils.CATEGORY_KEYWORDS in dictionary order: category, keywords in list order
CATEGORY_KEYWORDS ==
  <<
    [category |-> "Groceries", keywords |->
      <<<<"c","o","o","p">>, <<"m","i","g","r","o","s">>, <<"a","l","d","i">>, <<"l","i","d","l">>,
        <<"d","e","n","n","e","r">>, <<"s","u","p","e","r","m","a","r","k","e","t">>,
        <<"g","r","o","c","e","r","y">>, <<"c","a","r","r","e","f","o","u","r">>,
        <<"m","i","g","r","o","l","i","n","o">>, <<"c","o","o","p"," ","t","o"," ","g","o">>,
        <<"v","o","l","g">>, <<"e","d","e","k","a">>, <<"f","r","a","n","p","r","i","x">>>>],
    [category |-> "Transport", keywords |->
      <<<<"s","b","b">>, <<"v","b","z">>, <<"b","u","s">>, <<"t","r","a","i","n">>,
        <<"t","r","a","m">>, <<"u","b","e","r">>, <<"t","a","x","i">>, <<"e","a","s","y","r">>,
        <<"e","a","s","y","r","i","d","e","r">>, <<"r","a","t","p">>>>],
    [category |-> "Insurance", keywords |->
      <<<<"s","a","n","i","t","a","s">>, <<"a","x","a">>,
        <<"v","e","r","s","i","c","h","e","r","u","n","g">>,
        <<"i","n","s","u","r","a","n","c","e">>>>],
    [category |-> "Dining", keywords |->
      <<<<"r","e","s","t","a","u","r","a","n","t">>, <<"c","a","f","e">>, <<"b","a","r">>,
        <<"m","c"," ","d","o","n","a","l","d">>, <<"s","t","a","r","b","u","c","k","s">>,
        <<"p","i","z","z","a">>, <<"k","e","b","a","b">>, <<"d","i","n","i","n","g">>,
        <<"r","e","s","t","o">>, <<"s","t","e","a","k","h","o","u","s","e">>,
        <<"l","e"," ","c","r","o","b","a","g">>, <<"b","u","r","g","e","r"," ","k","i","n","g">>,
        <<"s","e","l","e","c","t","a">>, <<"o","r","i","e","n","t"," ","w","o","r","l","d">>,
        <<"p","a","u","l">>, <<"r","e","l","a","y">>,
        <<"t","o","o","g","o","o","d","t","o","g","o">>,
        <<"t","o","o"," ","g","o","o","d"," ","t","o"," ","g","o">>,
        <<"v","e","n","d","i","n","g"," ","m","a","c","h","i","n","e">>,
        <<"s","v"," ","g","r","o","u","p">>,
        <<"G","l","e","t","s","c","h","e","r","r","e","s","t",".">>,
        <<"a","s","i","a","w","a","y">>, <<"b","u","c","h","m","a","n","n">>,
        <<"g","e","l","a","t","i">>, <<"n","o","o","b","a">>, <<"r","i","c","e"," ","u","p">>,
        <<"n","o","r","d","b","r","ü","c","k","e">>,
        <<"a","m","b","o","s","s"," ","r","a","m","p","e">>,
        <<"l","e","s"," ","h","a","l","l","e","s">>, <<"t","i","n","y"," ","f","i","s","h">>,
        <<"m","o","n","o","c","l","e">>, <<"g","l","a","c","e">>,
        <<"g","e","l","a","t","e","r","i","a">>>>],
    [category |-> "Salary", keywords |->
      <<<<"s","a","l","a","r","y">>, <<"e","r","a","n","e","o","s">>,
        <<"p","a","y","r","o","l","l">>, <<"l","o","h","n">>>>],
    [category |-> "Shopping", keywords |->
      <<<<"g","a","l","a","x","u","s">>, <<"d","i","g","i","t","e","c">>,
        <<"d","e","c","a","t","h","l","o","n">>, <<"s","h","o","p","p","i","n","g">>,
        <<"s","t","o","r","e">>, <<"s","h","o","p">>, <<"b","o","u","t","i","q","u","e">>,
        <<"h","m">>, <<"j","u","m","b","o">>, <<"b","l","a","t","t","n","e","r">>,
        <<"f","n","a","c">>, <<"b","r","o","c","k","i","-","l","a","n","d">>,
        <<"a","l","i","e","x","p","r","e","s","s">>, <<"a","m","a","z","o","n">>>>],
    [category |-> "Utilities", keywords |->
      <<<<"s","w","i","s","s","c","o","m">>, <<"s","u","n","r","i","s","e">>,
        <<"t","e","l","e","c","o","m">>, <<"i","n","t","e","r","n","e","t">>,
        <<"e","l","e","c","t","r","i","c","i","t","y">>, <<"w","a","s","s","e","r">>,
        <<"w","a","t","e","r">>, <<"g","a","s">>, <<"u","t","i","l","i","t","y">>,
        <<"a","p","p","l","e">>, <<"s","w","i","s","s"," ","p","o","s","t">>,
        <<"w","w","w",".","1","g","l","o","b","a","l",".","c","o","m">>>>],
    [category |-> "Car", keywords |->
      <<<<"g","a","r","a","g","e">>, <<"p","a","r","k","i","n","g">>, <<"p","a","r","k">>,
        <<"p","a","r","k","i","n","g","p","a","y">>>>],
    [category |-> "Health", keywords |->
      <<<<"p","h","a","r","m","a","c","y">>, <<"a","p","o","t","h","e","k","e">>,
        <<"d","o","c","t","o","r">>, <<"a","r","z","t">>, <<"h","o","s","p","i","t","a","l">>,
        <<"c","l","i","n","i","c">>, <<"d","m">>, <<"d","r">>,
        <<"C","e","n","t","r","e"," ","O","p","h","t","a","l","m","o","l">>,
        <<"c","o","i","f","f","u","r","e">>>>],
    [category |-> "Travel", keywords |->
      <<<<"h","o","t","e","l">>, <<"h","o","s","t","e","l">>, <<"a","i","r","b","n","b">>,
        <<"b","o","o","k","i","n","g",".","c","o","m">>, <<"f","l","i","g","h","t">>,
        <<"a","i","r","l","i","n","e">>, <<"b","a","h","n">>, <<"t","r","a","i","n">>,
        <<"b","o","o","k","a","w","a","y">>, <<"r","e","n","t","c","a","r","s">>,
        <<"e","a","s","y","j","e","t">>, <<"a","u","t","o","s","t","r","a","d","e">>,
        <<"t","i","t","l","s"," ","r","o","t","a","i","r">>, <<"b","a","h","n">>,
        <<"s","n","c","f">>, <<"b","p">>, <<"s","h","e","l","l">>, <<"s","o","c","a","r">>,
        <<"i","b","e","r","i","a">>,
        <<"b","e","n","z","i","n"," ","d","i","s","c","o","u","n","t">>,
        <<"a","l","p","e","s"," ","r","e","c","e","p","c","i","o","n">>,
        <<"e","d","e","l","w","e","i","s","s">>, <<"e","s","s","o">>>>],
    [category |-> "Bank Transfer", keywords |->
      <<<<"t","r","a","n","s","f","e","r">>,
        <<"a","c","c","o","u","n","t"," ","t","r","a","n","s","f","e","r">>, <<"s","e","p","a">>,
        <<"w","i","r","e">>, <<"ü","b","e","r","w","e","i","s","u","n","g">>,
        <<"r","e","v","o","l","u","t"," ","f","r","a","n","c","e",","," ","s","u","c","c","u","r","s","a","l","e"," ","d","e"," ","r","e","v","o","l","u","t"," ","b","a","n","k"," ","u","a","b">>,
        <<"p","a","y","m","e","n","t"," ","f","r","o","m">>, <<"t","o","p","-","u","p">>>>],
    [category |-> "Investment", keywords |->
      <<<<"d","e","g","e","n">>, <<"c","r","y","p","t","o">>, <<"c","o","i","n","b","a","s","e">>,
        <<"b","i","n","a","n","c","e">>, <<"i","n","v","e","s","t","m","e","n","t">>,
        <<"e","t","o","r","o">>>>],
    [category |-> "Leisure", keywords |->
      <<<<"c","i","n","e","m","a">>, <<"t","h","e","a","t","e","r">>,
        <<"c","o","n","c","e","r","t">>, <<"e","v","e","n","t">>, <<"l","e","i","s","u","r","e">>,
        <<"m","u","s","e","o">>, <<"m","u","s","e","u","m">>, <<"s","t","e","a","m">>,
        <<"g","o","t","c","o","u","r","t","s">>, <<"k","u","n","s","t","h","a","u","s">>,
        <<"d","i","s","n","e","y","+">>, <<"y","o","g","a">>,
        <<"g","r","o","u","n","d"," ","n","e","w","s">>, <<"k","o","b","o">>,
        <<"a","u","d","i","b","l","e">>, <<"n","e","t","f","l","i","x">>,
        <<"s","p","o","t","i","f","y">>, <<"h","a","l","l","e","n","b","a","d">>>>],
    [category |-> "Standing Order", keywords |->
      <<<<"s","t","a","n","d","i","n","g"," ","o","r","d","e","r">>>>],
    [category |-> "Fee", keywords |->
      <<<<"f","e","e">>, <<"c","h","a","r","g","e">>, <<"g","e","b","ü","h","r">>>>],
    [category |-> "Cash Withdrawal", keywords |->
      <<<<"a","t","m">>, <<"c","a","s","h"," ","w","i","t","h","d","r","a","w","a","l">>,
        <<"g","e","l","d","a","u","t","o","m","a","t">>, <<"b","a","n","k","o","m","a","t">>,
        <<"c","a","j","e","r","o">>, <<"b","a","n","c","o","m","a","t">>>>],
    [category |-> "Work", keywords |->
      <<<<"i","s","c","2">>>>],
    [category |-> "Uncounted", keywords |->
      <<<<"b","a","l","a","n","c","e"," ","m","i","g","r","a","t","i","o","n">>,
        <<"e","x","c","h","a","n","g","e","d"," ","t","o">>>>],
    [category |-> "Vault", keywords |->
      <<<<"p","o","c","k","e","t">>, <<"v","a","u","l","t">>,
        <<"p","o","c","k","e","t"," ","w","i","t","h","d","r","a","w","a","l">>>>],
    [category |-> "Refund", keywords |->
      <<<<"r","e","f","u","n","d">>>>],
    [category |-> "Rent", keywords |->
      <<<<"r","e","n","t">>, <<"m","i","e","t","e">>, <<"i","m","m","o","b","i","l","i","e","n">>>>],
    [category |-> "Donation", keywords |->
      <<<<"p","r","o"," ","i","n","f","i","r","m","i","s">>>>],
    [category |-> "Other", keywords |->
      <<>>]>>
\* ------------------------------- preprocess_statement.categorize_transaction

RECURSIVE KeywordPairs(_)
KeywordPairs(k) ==
  IF k > Len(CATEGORY_KEYWORDS) THEN <<>>
  ELSE [i \in 1..Len(CATEGORY_KEYWORDS[k].keywords) |->
          [category |-> CATEGORY_KEYWORDS[k].category,
           keyword |-> CATEGORY_KEYWORDS[k].keywords[i]]]
       \o KeywordPairs(k + 1)

\* all_keywords before the sort
all_keywords ==
  KeywordPairs(1)

\* The batch preprocessor's categorize_transaction.  all_keywords.sort(key =
\* keyword length, reverse = True) is stable, so the first hit of the sorted
\* scan is the earliest of the longest matching keywords.
preprocess_categorize_transaction(description, mapping) ==
  LET desc_str == Strip(description)
      desc_lower == Lower(desc_str)
      exact == {i \in 1..Len(mapping) : mapping[i].key = desc_str}
      hits == {i \in 1..Len(all_keywords) : Contains(desc_lower, all_keywords[i].keyword)}
      longest == {i \in hits : \A j \in hits :
                    Len(all_keywords[j].keyword) <= Len(all_keywords[i].keyword)}
  IN  IF description = <<>> THEN "Uncounted"
      ELSE IF exact # {} THEN mapping[Min(exact)].category
      ELSE IF hits # {} THEN all_keywords[Min(longest)].category
      ELSE "Uncounted"

\* the loop of bulk_import_from_existing_data without its test
\* `merchant not in self.known_merchants`
RECURSIVE ImportFrom_Overwrites(_, _, _, _, _)
ImportFrom_Overwrites(c, data, k, imported, modelOk) ==
  IF k > Len(data) THEN [c |-> c, imported |-> imported, error |-> ""]
  ELSE LET merchant == Strip(data[k].merchant)
           category == StripCategory(data[k].category)
           added == add_known_merchant(c, merchant, category, modelOk)
       IN  IF /\ merchant # <<>>
              /\ category # ""
              /\ category # "Uncounted"
             THEN IF added.error # ""
                    THEN [c |-> added.c, imported |-> imported, error |-> added.error]
                    ELSE ImportFrom_Overwrites(added.c, data, k + 1, imported + 1, modelOk)
             ELSE ImportFrom_Overwrites(c, data, k + 1, imported, modelOk)

\* bulk_import_from_existing_data from entry k on: [c, imported, error]
RECURSIVE ImportFrom(_, _, _, _, _)
ImportFrom(c, data, k, imported, modelOk) ==
  IF k > Len(data) THEN [c |-> c, imported |-> imported, error |-> ""]
  ELSE LET merchant == Strip(data[k].merchant)
           category == StripCategory(data[k].category)
           added == add_known_merchant(c, merchant, category, modelOk)
       IN  IF /\ merchant # <<>>
              /\ category # ""
              /\ category # "Uncounted"
              /\ merchant \notin DOMAIN c.known
             THEN IF added.error # ""
                    THEN [c |-> added.c, imported |-> imported, error |-> added.error]
                    ELSE ImportFrom(added.c, data, k + 1, imported + 1, modelOk)
             ELSE ImportFrom(c, data, k + 1, imported, modelOk)

bulk_import_from_existing_data(c, disk, data, modelOk, progress) ==
  LET done == ImportFrom(c, data, 1, 0, modelOk)
  IN  IF done.error # "" \/ done.imported = 0
        THEN [c |-> done.c, disk |-> disk, error |-> done.error]
        ELSE [c |-> done.c,
              disk |-> save_data(done.c, disk, progress),
              error |-> IF progress = SaveComplete THEN "" ELSE "io"]

\* ============================================ preprocess_statement.py

\* a missing value (pandas NaN) in a column of strings
NaN ==
  <<"NaN">>

D_Blank ==
  <<" ", " ">>

D_Header ==
  <<"D","a","t","e">>

D_First ==
  <<"0","3",".","0","1",".","2","0","2","4">>

D_Second ==
  <<"0","5",".","0","1",".","2","0","2","4">>

Dates ==
  {NaN, D_Blank, D_Header, D_First, D_Second}

\* re.compile(r"\(\d+\)\s*$")
parent_pattern ==
  <<Lit(<<"(">>), Plus(Digits), Lit(<<")">>), Star(SpaceChars), EOL>>

\* the loop of expand_zkb_child_transactions from row k on: the frame with
\* the inherited dates, current_date (<<>> for None) and parent_indices
RECURSIVE ExpandLoop(_, _, _, _)
ExpandLoop(frame, k, current_date, parent_indices) ==
  IF k > Len(frame) THEN [frame |-> frame, parent_indices |-> parent_indices]
  ELSE LET date_val == frame[k].Date
           booking_text == frame[k].Booking_text
           date_str == Strip(date_val)
       IN  IF date_val # NaN
             THEN IF date_str # <<>> /\ date_str # D_Header
                    THEN ExpandLoop(frame, k + 1, date_str,
                           IF Search(parent_pattern, booking_text)
                             THEN parent_indices \cup {k}
                             ELSE parent_indices)
                    ELSE ExpandLoop(frame, k + 1, current_date, parent_indices)
           ELSE IF current_date # <<>>
             THEN ExpandLoop([frame EXCEPT ![k].Date = current_date], k + 1,
                             current_date, parent_indices)
           ELSE ExpandLoop(frame, k + 1, current_date, parent_indices)

\* DataFrame.drop(labels) followed by reset_index(drop=True)
RECURSIVE Drop(_, _, _)
Drop(frame, labels, k) ==
  IF k > Len(frame) THEN <<>>
  ELSE IF k \in labels THEN Drop(frame, labels, k + 1)
  ELSE <<frame[k]>> \o Drop(frame, labels, k + 1)

\* expand_zkb_child_transactions that keeps the rows it marked
expand_zkb_child_transactions_KeepsParents(input) ==
  ExpandLoop(input, 1, <<>>, {}).frame

\* expand_zkb_child_transactions that leaves every Date as it was read
expand_zkb_child_transactions_NoInherit(input) ==
  Drop(input, ExpandLoop(input, 1, <<>>, {}).parent_indices, 1)

expand_zkb_child_transactions(input) ==
  LET done == ExpandLoop(input, 1, <<>>, {})
  IN  IF input = <<>> THEN input
      ELSE Drop(done.frame, done.parent_indices, 1)

\* ================================================ the Transaction table
\* db is a sequence of rows, the row at position i has id i.  amount is <<>>
\* for NULL and <<a>> for the number a; category_confidence is NoConf for
\* NULL and hundredths otherwise.

Tx(booking_text, amount, category) ==
  [booking_text |-> booking_text, amount |-> amount, category |-> category,
   category_confidence |-> NoConf, is_manually_categorized |-> FALSE,
   predicted_category |-> ""]

Placeholders ==
  {"Uncategorized", "nan", ""}

\* threshold: float = 0.4 of predict_with_context
DefaultContextThreshold ==
  40

\* transaction.category_confidence > 0.8
HighConfidence ==
  80

RECURSIVE SortedSeq(_)
SortedSeq(S) ==
  IF S = {} THEN <<>>
  ELSE LET m == Min(S) IN <<m>> \o SortedSeq(S \ {m})

\* categorize_transaction, before it saves, without the guard on
\* is_manually_categorized
categorize_transaction_NoManualGuard(c, mapping, t, modelOk) ==
  LET Assign(p) ==
        IF p.error # ""
          THEN [t |-> t, c |-> [c EXCEPT !.model = p.model], error |-> p.error,
                returned |-> Result(None, 0)]
        ELSE IF Truthy(p.category)
          THEN [t |-> [t EXCEPT !.category = p.category,
                                !.category_confidence = p.confidence,
                                !.predicted_category = p.category],
                c |-> [c EXCEPT !.model = p.model], error |-> "",
                returned |-> Result(p.category, p.confidence)]
        ELSE [t |-> [t EXCEPT !.category = "Uncategorized", !.category_confidence = 0],
              c |-> [c EXCEPT !.model = p.model], error |-> "",
              returned |-> Result("Uncategorized", 0)]
  IN  Assign(predict_with_context(c, mapping, t.booking_text, t.amount,
                                  DefaultContextThreshold, modelOk))

\* TransactionCategorizationService.categorize_transaction before it saves:
\* [t, c, error], t the transaction object after the call
categorize_transaction(c, mapping, t, modelOk) ==
  LET amount == IF t.amount # <<>> /\ t.amount[1] # 0 THEN t.amount ELSE <<>>
      \* the assignments that follow the prediction p
      Assign(p) ==
        IF p.error # ""
          THEN [t |-> t, c |-> [c EXCEPT !.model = p.model], error |-> p.error,
                returned |-> Result(None, 0)]
        ELSE IF Truthy(p.category)
          THEN [t |-> [t EXCEPT !.category = p.category,
                                !.category_confidence = p.confidence,
                                !.predicted_category = p.category],
                c |-> [c EXCEPT !.model = p.model], error |-> "",
                returned |-> Result(p.category, p.confidence)]
        ELSE IF t.category = ""
          THEN [t |-> [t EXCEPT !.category = "Uncategorized",
                                !.category_confidence = 0],
                c |-> [c EXCEPT !.model = p.model], error |-> "",
                returned |-> Result("Uncategorized", 0)]
        ELSE [t |-> t, c |-> [c EXCEPT !.model = p.model], error |-> "",
              returned |-> Result(t.category, 0)]
  IN  IF t.is_manually_categorized
        THEN [t |-> t, c |-> c, error |-> "",
              returned |-> Result(t.category,
                                  IF t.category_confidence \in {NoConf, 0}
                                    THEN 100 ELSE t.category_confidence)]
      ELSE IF /\ t.category \notin Placeholders
              /\ t.category_confidence # NoConf
              /\ t.category_confidence > HighConfidence
        THEN [t |-> t, c |-> c, error |-> "",
              returned |-> Result(t.category, t.category_confidence)]
      ELSE Assign(predict_with_context(c, mapping, t.booking_text, amount,
                                       DefaultContextThreshold, modelOk))

\* confidence >= 0.6
MediumConfidence ==
  60

\* stats of categorize_transactions_bulk before the loop
InitialStats(transactions) ==
  [total |-> Len(transactions), total_processed |-> Len(transactions),
   categorized |-> 0, high_confidence |-> 0, medium_confidence |-> 0,
   low_confidence |-> 0, uncategorized |-> 0]

\* the counting of what categorize_transaction returned for one transaction
Counted(stats, returned) ==
  IF Truthy(returned.category) /\ returned.category # "Uncounted"
    THEN [stats EXCEPT
            !.categorized = @ + 1,
            !.high_confidence = IF returned.confidence >= HighConfidence THEN @ + 1 ELSE @,
            !.medium_confidence = IF /\ returned.confidence < HighConfidence
                                     /\ returned.confidence >= MediumConfidence
                                    THEN @ + 1 ELSE @,
            !.low_confidence = IF returned.confidence < MediumConfidence THEN @ + 1 ELSE @]
    ELSE [stats EXCEPT !.uncategorized = @ + 1]

\* the loop of categorize_transactions_bulk from position k of ids on; objs
\* are the transaction objects in memory
RECURSIVE BulkLoop(_, _, _, _, _, _, _)
BulkLoop(c, mapping, objs, ids, k, modelOk, stats) ==
  IF k > Len(ids) THEN [objs |-> objs, c |-> c, error |-> "", stats |-> stats]
  ELSE LET Continue(r) ==
             IF r.error # ""
               THEN [objs |-> objs, c |-> r.c, error |-> r.error, stats |-> stats]
               ELSE BulkLoop(r.c, mapping, [objs EXCEPT ![ids[k]] = r.t], ids, k + 1,
                             modelOk, Counted(stats, r.returned))
       IN  Continue(categorize_transaction(c, mapping, objs[ids[k]], modelOk))

\* the fields bulk_update writes
Updated(stored, obj) ==
  [stored EXCEPT !.category = obj.category,
                 !.category_confidence = obj.category_confidence,
                 !.predicted_category = obj.predicted_category]

\* categorize_transactions_bulk whose loop calls categorize_transaction with
\* its default save=True: every object the loop assigned to is stored at once
categorize_transactions_bulk_SavesEachRow(c, mapping, table, ids, modelOk) ==
  LET save(done) ==
        [db |-> [i \in DOMAIN table |->
                   IF i \in SeqRange(ids) THEN Updated(table[i], done.objs[i]) ELSE table[i]],
         c |-> done.c, error |-> done.error, stats |-> done.stats,
         writes |-> [k \in 1..Len(ids) |-> [op |-> "save", ids |-> {ids[k]}]]]
  IN  save(BulkLoop(c, mapping, table, ids, 1, modelOk, InitialStats(ids)))

\* categorize_transactions_bulk on the rows `ids`: [db, c, error, writes].  An
\* exception leaves the loop before bulk_update.  writes are the writes to the
\* Transaction table in the order they are issued: the loop passes save=False,
\* so the only one is the bulk_update after it.
categorize_transactions_bulk(c, mapping, table, ids, modelOk) ==
  LET bulk_update(done) ==
        IF done.error # ""
          THEN [db |-> table, c |-> done.c, error |-> done.error, stats |-> done.stats,
                writes |-> <<>>]
          ELSE [db |-> [i \in DOMAIN table |->
                         IF i \in SeqRange(ids) THEN Updated(table[i], done.objs[i])
                         ELSE table[i]],
                c |-> done.c, error |-> "", stats |-> done.stats,
                writes |-> <<[op |-> "bulk_update", ids |-> SeqRange(ids)]>>]
  IN  bulk_update(BulkLoop(c, mapping, table, ids, 1, modelOk, InitialStats(ids)))

recategorize_uncategorized_transactions(c, mapping, table, modelOk) ==
  categorize_transactions_bulk(c, mapping, table,
    SortedSeq({i \in DOMAIN table : /\ table[i].category \in {"", "Uncategorized", "nan"}
                                    /\ ~table[i].is_manually_categorized}),
    modelOk)

\* a correction is recorded for every transaction that has a prediction
has_different_prediction_AnyPrediction(t, new_category) ==
  Truthy(t.predicted_category)

\* the condition of record_manual_categorization for recording a correction
has_different_prediction(t, new_category) ==
  Truthy(t.predicted_category) /\ t.predicted_category # new_category

\* a manual override that takes the new category for the prediction as well
ManuallySet_SetsPredicted(t, new_category) ==
  [t EXCEPT !.category = new_category, !.is_manually_categorized = TRUE,
            !.category_confidence = 100, !.predicted_category = new_category]

\* the three assignments of a manual override
ManuallySet(t, new_category) ==
  [t EXCEPT !.category = new_category, !.is_manually_categorized = TRUE,
            !.category_confidence = 100]

\* record_manual_categorization propagating to manually categorized rows too
record_manual_categorization_OverwritesManual(c, disk, table, transaction_id, new_category, modelOk, progress) ==
  LET transaction == table[transaction_id]
      merchant_text == transaction.booking_text
      \* the updates once the correction, if one was due, has been recorded
      \* and left the categorizer c1 and the files disk1
      Update(records, c1, disk1) ==
        [db |-> [i \in DOMAIN table |->
                   IF i = transaction_id
                     THEN ManuallySet(table[i], new_category)
                   ELSE IF /\ merchant_text # <<>>
                           /\ table[i].booking_text = merchant_text
                     THEN ManuallySet(table[i], new_category)
                   ELSE table[i]],
         c |-> c1, disk |-> disk1, result |-> "True",
         recorded |-> records, error |-> ""]
      AfterCorrection(r) ==
        IF r.error # ""
          THEN [db |-> table, c |-> r.c, disk |-> r.disk, result |-> "raised",
                recorded |-> TRUE, error |-> r.error]
          ELSE Update(TRUE, r.c, r.disk)
  IN  IF transaction_id \notin DOMAIN table
        THEN [db |-> table, c |-> c, disk |-> disk, result |-> "False",
              recorded |-> FALSE, error |-> ""]
      ELSE IF has_different_prediction(transaction, new_category)
        THEN AfterCorrection(
               record_correction(c, disk, transaction.booking_text,
                                 transaction.predicted_category, new_category,
                                 transaction.category_confidence, modelOk, progress))
      ELSE Update(FALSE, c, disk)

\* record_manual_categorization: [db, c, disk, result, recorded, error];
\* result is "True", "False" or "raised"
record_manual_categorization(c, disk, table, transaction_id, new_category, modelOk, progress) ==
  LET transaction == table[transaction_id]
      merchant_text == transaction.booking_text
      \* the updates once the correction, if one was due, has been recorded
      \* and left the categorizer c1 and the files disk1
      Update(records, c1, disk1) ==
        [db |-> [i \in DOMAIN table |->
                   IF i = transaction_id
                     THEN ManuallySet(table[i], new_category)
                   ELSE IF /\ merchant_text # <<>>
                           /\ table[i].booking_text = merchant_text
                           /\ ~table[i].is_manually_categorized
                     THEN ManuallySet(table[i], new_category)
                   ELSE table[i]],
         c |-> c1, disk |-> disk1, result |-> "True",
         recorded |-> records, error |-> ""]
      AfterCorrection(r) ==
        IF r.error # ""
          THEN [db |-> table, c |-> r.c, disk |-> r.disk, result |-> "raised",
                recorded |-> TRUE, error |-> r.error]
          ELSE Update(TRUE, r.c, r.disk)
  IN  IF transaction_id \notin DOMAIN table
        THEN [db |-> table, c |-> c, disk |-> disk, result |-> "False",
              recorded |-> FALSE, error |-> ""]
      ELSE IF has_different_prediction(transaction, new_category)
        THEN AfterCorrection(
               record_correction(c, disk, transaction.booking_text,
                                 transaction.predicted_category, new_category,
                                 transaction.category_confidence, modelOk, progress))
      ELSE Update(FALSE, c, disk)

\* the fallback of api_update_category leaving the confidence as it is
fallback_update_KeepConfidence(table, transaction_id, new_category) ==
  [table EXCEPT ![transaction_id] =
     [@ EXCEPT !.category = new_category, !.is_manually_categorized = TRUE]]

\* the fallback of api_update_category doing nothing
fallback_update_Nothing(table, transaction_id, new_category) ==
  table

\* the fallback of api_update_category, for a transaction that exists
fallback_update(table, transaction_id, new_category) ==
  [table EXCEPT ![transaction_id] =
     [@ EXCEPT !.category = new_category, !.is_manually_categorized = TRUE,
               !.category_confidence = 100]]

\* api_update_category: [db, c, disk, path, recorded, error]; path is
\* "service" (the service returned True), "fallback" (the service raised and
\* the view wrote the row itself) or "notfound" (404).  initOk: whether the
\* service and its categorizer can be constructed.
api_update_category(disk, table, transaction_id, new_category, initOk, modelOk, progress) ==
  LET c == load_data(disk)
      \* r: what record_manual_categorization did
      Respond(r) ==
        IF r.result = "True"
          THEN [db |-> r.db, c |-> r.c, disk |-> r.disk, path |-> "service",
                recorded |-> r.recorded, error |-> ""]
        ELSE IF r.result = "False"
          THEN [db |-> table, c |-> r.c, disk |-> disk, path |-> "notfound",
                recorded |-> FALSE, error |-> ""]
        ELSE [db |-> fallback_update(table, transaction_id, new_category),
              c |-> r.c, disk |-> r.disk, path |-> "fallback",
              recorded |-> r.recorded, error |-> r.error]
  IN  IF initOk
        THEN Respond(record_manual_categorization(c, disk, table, transaction_id,
                                                  new_category, modelOk, progress))
      ELSE IF transaction_id \notin DOMAIN table
        THEN [db |-> table, c |-> c, disk |-> disk, path |-> "notfound",
              recorded |-> FALSE, error |-> "init"]
      ELSE [db |-> fallback_update(table, transaction_id, new_category),
            c |-> c, disk |-> disk, path |-> "fallback",
            recorded |-> FALSE, error |-> "init"]

\* the loop of api_bulk_categorize from position k of ids on, with one service
RECURSIVE RelabelLoop(_, _, _, _, _, _, _, _)
RelabelLoop(c, disk, table, ids, k, category, modelOk, progress) ==
  IF k > Len(ids) THEN [db |-> table, c |-> c, disk |-> disk, count |-> k - 1, error |-> ""]
  ELSE LET Continue(r) ==
             IF r.result = "raised"
               THEN [db |-> r.db, c |-> r.c, disk |-> r.disk, count |-> k - 1,
                     error |-> r.error]
               ELSE RelabelLoop(r.c, r.disk, r.db, ids, k + 1, category, modelOk, progress)
       IN  Continue(record_manual_categorization(c, disk, table, ids[k], category,
                                                 modelOk, progress))

\* booking_text__icontains
icontains(text, pattern) ==
  Contains(Lower(text), Lower(pattern))

\* api_bulk_categorize with a non-empty pattern and category
api_bulk_categorize(disk, table, merchant_pattern, category, modelOk, progress) ==
  RelabelLoop(load_data(disk), disk, table,
              SortedSeq({i \in DOMAIN table : icontains(table[i].booking_text, merchant_pattern)}),
              1, category, modelOk, progress)

\* the upload branch of settings_view from bulk_create on: the rows of the
\* file are inserted, then those without a category are categorized; a
\* failure of the categorization is caught
upload(disk, mapping, table, rows, initOk, modelOk) ==
  LET created == table \o rows
      fresh == (Len(table) + 1)..Len(created)
      uncategorized == SortedSeq({i \in fresh : created[i].category \in {"", "Uncategorized", "nan"}})
  IN  IF ~initOk
        THEN [db |-> created, c |-> load_data(disk), error |-> "init"]
      ELSE IF uncategorized = <<>>
        THEN [db |-> created, c |-> load_data(disk), error |-> ""]
      ELSE categorize_transactions_bulk(load_data(disk), mapping, created,
                                        uncategorized, modelOk)

\* ------------------------------------------------ management commands

restore_uncounted(table) ==
  [i \in DOMAIN table |->
     LET transaction == table[i]
         booking_text == Lower(transaction.booking_text)
         should_be_uncounted ==
           \/ \E keyword \in uncounted_keywords : Contains(booking_text, keyword)
           \/ \E keyword \in ExtraUncountedWords : Contains(booking_text, keyword)
     IN  IF transaction.category = "Uncategorized" /\ should_be_uncounted
           THEN [transaction EXCEPT !.category = "Uncounted",
                                    !.category_confidence = NoConf,
                                    !.predicted_category = "",
                                    !.is_manually_categorized = FALSE]
           ELSE transaction]

fix_nan_categories(table, fix_uncounted) ==
  LET fixed == [i \in DOMAIN table |->
                  IF table[i].category = "nan"
                    THEN [table[i] EXCEPT !.category = "Uncategorized",
                                          !.category_confidence = 0,
                                          !.predicted_category = "",
                                          !.is_manually_categorized = FALSE]
                    ELSE table[i]]
  IN  IF ~fix_uncounted THEN fixed
      ELSE [i \in DOMAIN fixed |->
              IF fixed[i].category = "Uncounted" /\ fixed[i].category_confidence = NoConf
                THEN [fixed[i] EXCEPT !.category = "Uncategorized",
                                      !.category_confidence = 0,
                                      !.is_manually_categorized = FALSE]
                ELSE fixed[i]]


\* ============================== the upload of a statement in settings_view

\* str(nan), what str() makes of a missing value
S_nan ==
  <<"n","a","n">>

\* the loop over df.index in settings_view from row k on: a row whose Date,
\* stripped, is empty takes current_date (<<>> for None)
RECURSIVE InheritLoop(_, _, _)
InheritLoop(frame, k, current_date) ==
  IF k > Len(frame) THEN frame
  ELSE LET date_val == Strip(IF frame[k].Date # NaN THEN frame[k].Date ELSE <<>>)
       IN  IF date_val # <<>> /\ date_val # D_Header
             THEN InheritLoop(frame, k + 1, date_val)
           ELSE IF current_date # <<>>
             THEN InheritLoop([frame EXCEPT ![k].Date = current_date], k + 1,
                              current_date)
           ELSE InheritLoop(frame, k + 1, current_date)

\* the Transaction objects made of the rows of df, one for every row; the
\* frames of this model have no amount, currency or Category column
transactions_to_create(frame) ==
  [i \in 1..Len(frame) |->
     [ref |-> frame[i].ref,
      date |-> IF frame[i].Date = NaN THEN S_nan ELSE frame[i].Date,
      booking_text |-> frame[i].Booking_text, amount |-> <<>>, category |-> "",
      category_confidence |-> NoConf, is_manually_categorized |-> FALSE,
      predicted_category |-> ""]]

\* the upload branch of settings_view for a parsed file with a Date column
settings_view_upload(disk, mapping, table, frame, initOk, modelOk) ==
  upload(disk, mapping, table, transactions_to_create(InheritLoop(frame, 1, <<>>)),
         initOk, modelOk)

\* ======================================= the batch preprocessor's pipeline

\* ------------------------------------------------ fix_vault_amounts

\* "to pocket"
K_ToPocket ==
  <<"t","o"," ","p","o","c","k","e","t">>

\* "to chf vault"
K_ToChfVault ==
  <<"t","o"," ","c","h","f"," ","v","a","u","l","t">>

\* "to chf tablet"
K_ToChfTablet ==
  <<"t","o"," ","c","h","f"," ","t","a","b","l","e","t">>

\* "to chf gaming"
K_ToChfGaming ==
  <<"t","o"," ","c","h","f"," ","g","a","m","i","n","g">>

\* "to eur"
K_ToEur ==
  <<"t","o"," ","e","u","r">>

vault_keywords ==
  {K_ToPocket, K_ToChfVault, K_ToChfTablet, K_ToChfGaming, K_ToEur}

\* "To pocket CHF Ferien"
D_ToPocket ==
  <<"T","o"," ","p","o","c","k","e","t"," ","C","H","F"," ","F","e","r","i","e","n">>

\* "Transfer TO CHF VAULT"
D_ToVault ==
  <<"T","r","a","n","s","f","e","r"," ","T","O"," ","C","H","F"," ","V","A","U","L",
    "T">>

\* the descriptions of the rows of a normalized frame
Descriptions ==
  {D_ToPocket, D_ToVault, T_CoopCity}

\* amounts, in whole francs
Amounts ==
  {-5, 0, 7}

\* a row of the normalized frame
NormalizedRows ==
  [description : Descriptions, amount : Amounts, currency : {"CHF"}, Category : {""}]

\* fix_vault_amounts with `keyword in description` on the text as it is
fix_vault_amounts_CaseSensitive(frame) ==
  [df |-> [i \in 1..Len(frame) |->
             IF /\ \E keyword \in vault_keywords : Contains(frame[i].description, keyword)
                /\ frame[i].amount > 0
               THEN [frame[i] EXCEPT !.amount = -frame[i].amount]
               ELSE frame[i]],
   fixed_count |-> Cardinality({i \in 1..Len(frame) :
                     /\ \E keyword \in vault_keywords : Contains(frame[i].description, keyword)
                     /\ frame[i].amount > 0})]

\* fix_vault_amounts that negates the amount of every vault transfer
fix_vault_amounts_NegatesAll(frame) ==
  [df |-> [i \in 1..Len(frame) |->
             IF \E keyword \in vault_keywords :
                  Contains(Lower(frame[i].description), keyword)
               THEN [frame[i] EXCEPT !.amount = -frame[i].amount]
               ELSE frame[i]],
   fixed_count |-> Cardinality({i \in 1..Len(frame) :
                     \E keyword \in vault_keywords :
                       Contains(Lower(frame[i].description), keyword)})]

\* fix_vault_amounts: [df, fixed_count].  The loop reads each row once and
\* writes only that row's amount.
fix_vault_amounts(frame) ==
  LET is_vault_transfer(i) ==
        \E keyword \in vault_keywords : Contains(Lower(frame[i].description), keyword)
      fixed == {i \in 1..Len(frame) : is_vault_transfer(i) /\ frame[i].amount > 0}
  IN  [df |-> [i \in 1..Len(frame) |->
                 IF i \in fixed THEN [frame[i] EXCEPT !.amount = -frame[i].amount]
                 ELSE frame[i]],
       fixed_count |-> Cardinality(fixed)]

\* apply_categorization: the rows whose Category is empty or "Uncounted" get
\* the category of their description
apply_categorization(frame, mapping) ==
  [i \in 1..Len(frame) |->
     IF frame[i].Category \in {"", "Uncounted"}
       THEN [frame[i] EXCEPT !.Category =
               preprocess_categorize_transaction(frame[i].description, mapping)]
       ELSE frame[i]]

\* ------------------------------------------------ detect_bank_type
\* A statement file is [exists, name, first_line, parses]: whether the path
\* exists, its file name, its first line (Unreadable when it cannot be opened
\* or decoded) and whether pandas.read_csv can read it.


\* "ZKB_2024.csv"
N_Zkb ==
  <<"Z","K","B","_","2","0","2","4",".","c","s","v">>

\* "Revolut-export.csv"
N_Revolut ==
  <<"R","e","v","o","l","u","t","-","e","x","p","o","r","t",".","c","s","v">>

\* "statement.csv"
N_Other ==
  <<"s","t","a","t","e","m","e","n","t",".","c","s","v">>

\* "Date;Booking text;Curr"
L_Zkb ==
  <<"D","a","t","e",";","B","o","o","k","i","n","g"," ","t","e","x","t",";","C","u","r",
    "r">>

\* "Type,Product,Started Date,Completed Date,Description,Amount"
L_Revolut ==
  <<"T","y","p","e",",","P","r","o","d","u","c","t",",","S","t","a","r","t","e","d"," ",
    "D","a","t","e",",","C","o","m","p","l","e","t","e","d"," ","D","a","t","e",",","D",
    "e","s","c","r","i","p","t","i","o","n",",","A","m","o","u","n","t">>

\* "date,text,amount"
L_Other ==
  <<"d","a","t","e",",","t","e","x","t",",","a","m","o","u","n","t">>

\* "zkb"
S_zkb ==
  <<"z","k","b">>

\* "zürcher kantonalbank"
S_kantonalbank ==
  <<"z","ü","r","c","h","e","r"," ","k","a","n","t","o","n","a","l","b","a","n","k">>

\* "revolut"
S_revolut ==
  <<"r","e","v","o","l","u","t">>

\* "Booking text"
S_BookingText ==
  <<"B","o","o","k","i","n","g"," ","t","e","x","t">>

\* "Type,Product,Started Date,Completed Date,Description"
S_RevolutColumns ==
  <<"T","y","p","e",",","P","r","o","d","u","c","t",",","S","t","a","r","t","e","d"," ",
    "D","a","t","e",",","C","o","m","p","l","e","t","e","d"," ","D","a","t","e",",","D",
    "e","s","c","r","i","p","t","i","o","n">>

Unreadable ==
  <<"unreadable">>

FileNames ==
  {N_Zkb, N_Revolut, N_Other}

FirstLines ==
  {L_Zkb, L_Revolut, L_Other, Unreadable}

StatementFiles ==
  [exists : BOOLEAN, name : FileNames, first_line : FirstLines, parses : BOOLEAN]

detect_bank_type(file) ==
  LET filename == Lower(file.name)
  IN  IF Contains(filename, S_zkb) \/ Contains(filename, S_kantonalbank) THEN "zkb"
      ELSE IF Contains(filename, S_revolut) THEN "revolut"
      ELSE IF ~file.exists \/ file.first_line = Unreadable THEN "unknown"
      ELSE IF Contains(file.first_line, <<";">>) /\ Contains(file.first_line, S_BookingText)
        THEN "zkb"
      ELSE IF Contains(file.first_line, S_RevolutColumns) THEN "revolut"
      ELSE "unknown"

\* ------------------------------------------------ preprocess_statement
\* [error, bank_type, steps, output]: the exception raised ("" for none), the
\* dialect the run worked with, the steps that were run, and the rows written
\* to the output file (NoOutput when no file was written).  `frame` is the
\* normalized frame that reading, expanding and normalizing make of the file.

NoOutput ==
  <<"no file">>

Stopped(error, bank_type, steps) ==
  [error |-> error, bank_type |-> bank_type, steps |-> steps, output |-> NoOutput]

\* the steps of a run from reading on
Pipeline(file, bank_type, frame, mapping) ==
  IF ~file.parses THEN Stopped("ValueError: Error reading input file", bank_type, <<>>)
  ELSE [error |-> "", bank_type |-> bank_type,
        steps |-> (IF bank_type = "zkb" THEN <<"read", "expand">> ELSE <<"read">>)
                    \o <<"normalize", "fix_vault_amounts", "categorize", "write">>,
        output |-> apply_categorization(fix_vault_amounts(frame).df, mapping)]

\* preprocess_statement that goes on as with a Revolut file when no dialect
\* was recognized
preprocess_statement_AssumesRevolut(file, bank_type, frame, mapping) ==
  IF ~file.exists THEN Stopped("FileNotFoundError", bank_type, <<>>)
  ELSE IF bank_type = None /\ detect_bank_type(file) = "unknown"
    THEN Pipeline(file, "revolut", frame, mapping)
  ELSE Pipeline(file, IF bank_type = None THEN detect_bank_type(file) ELSE bank_type,
                frame, mapping)

\* bank_type is None when no dialect is forced
preprocess_statement(file, bank_type, frame, mapping) ==
  IF ~file.exists THEN Stopped("FileNotFoundError", bank_type, <<>>)
  ELSE IF bank_type = None /\ detect_bank_type(file) = "unknown"
    THEN Stopped("ValueError: Could not detect bank type", "unknown", <<>>)
  ELSE Pipeline(file, IF bank_type = None THEN detect_bank_type(file) ELSE bank_type,
                frame, mapping)

\* main: [exit_code, stderr, stdout, run]; --type is None, "zkb" or "revolut"
main(file, type, quiet, frame, mapping) ==
  LET Exit(run) ==
        IF run.error = ""
          THEN [exit_code |-> 0, stderr |-> <<>>,
                stdout |-> IF quiet THEN "output_file" ELSE "progress",
                run |-> run]
          ELSE [exit_code |-> 1, stderr |-> <<"Error:", run.error>>,
                stdout |-> "", run |-> run]
  IN  Exit(preprocess_statement(file, type, frame, mapping))

\* ------------------------------------------------ statistics
\* the placeholder both functions fall back to
placeholder_stats(error) ==
  [total_known_merchants |-> 0, total_corrections |-> 0, categories |-> {},
   model_loaded |-> FALSE, error |-> error]

\* SemanticCategorizer.get_stats.  hashable: set(known_merchants.values()) can
\* be built (a known_merchants.json whose values are lists or objects is valid
\* JSON and loads)
get_stats(c, hashable) ==
  IF hashable
    THEN [total_known_merchants |-> Cardinality(DOMAIN c.known),
          total_corrections |-> Len(c.hist),
          categories |-> {c.known[k] : k \in DOMAIN c.known},
          model_loaded |-> c.model]
    ELSE placeholder_stats("TypeError")

\* get_categorization_stats: [error, stats].  dbOk: the queries on Transaction
\* succeed; an exception of theirs reaches the outer handler, which prints it
\* and raises it again.  categorization_rate is the fraction <<num, den>>.
get_categorization_stats(c, table, dbOk, hashable) ==
  LET Count(P(_)) == Cardinality({i \in DOMAIN table : P(table[i])})
      categorized(t) == t.category \notin {"", "Uncategorized", "nan"}
      manually(t) == t.is_manually_categorized
      high(t) == t.category_confidence >= 80
      medium(t) == t.category_confidence >= 60 /\ t.category_confidence < 80
      low(t) == t.category_confidence < 60 /\ t.category_confidence > 0
  IN  IF ~dbOk THEN [error |-> "db", stats |-> None]
      ELSE [error |-> "",
            stats |-> [total_transactions |-> Len(table),
                       categorized |-> Count(categorized),
                       categorization_rate |->
                         IF Len(table) > 0 THEN <<Count(categorized) * 100, Len(table)>>
                         ELSE <<0, 1>>,
                       manually_categorized |-> Count(manually),
                       high_confidence |-> Count(high),
                       medium_confidence |-> Count(medium),
                       low_confidence |-> Count(low),
                       semantic_categorizer |-> get_stats(c, hashable)]]

\* ------------------------------------------------ value_date of a ZKB row
\* A ZKB frame is [columns, rows]: the column names read_csv found and, for
\* every row, the Date and the Value date field (NaN where the column or the
\* value is missing).

ValueDates ==
  {NaN, D_First, D_Second}

ZkbRows ==
  [Date : ValueDates, Value_date : ValueDates]

ZkbColumns ==
  SUBSET {"Date", "Value date"}

\* normalize_statements._parse_date(v, dayfirst=True) on the dates of the
\* model: DD.MM.YYYY becomes YYYY-MM-DDT00:00:00, a missing or empty value None
parse_date(v) ==
  LET s == Strip(v)
  IN  IF v = NaN \/ s = <<>> THEN None
      ELSE IF /\ Len(s) = 10
              /\ s[3] = "." /\ s[6] = "."
              /\ \A k \in {1, 2, 4, 5, 7, 8, 9, 10} : s[k] \in Digits
        THEN SubSeq(s, 7, 10) \o <<"-">> \o SubSeq(s, 4, 5) \o <<"-">> \o SubSeq(s, 1, 2)
               \o <<"T","0","0",":","0","0",":","0","0">>
      ELSE None

\* the value_date column convert_zkb_to_normalized builds
convert_zkb_to_normalized(columns, rows) ==
  [i \in 1..Len(rows) |->
     [value_date |-> IF "Date" \in columns THEN rows[i].Date
                     ELSE IF "Value date" \in columns THEN rows[i].Value_date
                     ELSE <<>>]]

\* the value_date column parse_zkb builds
parse_zkb(columns, rows) ==
  [i \in 1..Len(rows) |->
     [value_date |-> IF "Value date" \in columns THEN parse_date(rows[i].Value_date)
                     ELSE IF "Date" \in columns THEN parse_date(rows[i].Date)
                     ELSE None]]
\* ================================================================ state

VARIABLES
  merchant_mapping,  \* merchant_category_mapping.json as loaded: <<[key, category]>>
  files,             \* known_merchants.json, merchant_embeddings.pkl, user_corrections.json
  cat,               \* the long-lived SemanticCategorizer instance
  running,           \* the process holding `cat` is alive
  recorded,          \* merchant -> actual category of the last correction recorded
                     \* on `cat` since it was constructed
  call,              \* the last call: its arguments and what it returned
  faults,            \* how many calls met a failure of their environment
  db,                \* the Transaction table, row i has id i
  df,                \* the rows of a statement read from a CSV file
  expanded_df        \* what expand_zkb_child_transactions made of df

vars ==
  <<merchant_mapping, files, cat, running, recorded, call, faults, db, df,
    expanded_df>>

\* ------------------------------------------------------- bounds and inputs

\* records in the correction history
MaxCorrections ==
  2

\* failures of the environment (the embedding model cannot be loaded, a state
\* file cannot be written, the process is killed) in one behaviour
MaxFaults ==
  1

\* One mapping key of at least SubstringMinLen characters and one shorter.
MappingFile ==
  <<[key |-> T_CoopPronto, category |-> "Dining"],
    [key |-> T_CoopCity, category |-> "Shopping"]>>

\* the default threshold of predict_with_context and of predict_category
Thresholds ==
  {40, 50}

\* A merchant a keyword rule knows and one no earlier tier knows, the second
\* corrected to two categories.
Corrections ==
  {[merchant |-> T_Payment, actual |-> "Groceries"],
   [merchant |-> T_Joes, actual |-> PaddedDining],
   [merchant |-> T_Joes, actual |-> "Groceries"]}

CorrectedMerchants ==
  {x.merchant : x \in Corrections}

ImportLists ==
  {<<[merchant |-> T_Joes, category |-> "Leisure"],
     [merchant |-> T_CoopCityBern, category |-> "Uncounted"]>>}

NoResult ==
  [category |-> None, confidence |-> 0, error |-> "", model |-> FALSE]

Failed(error) ==
  [NoResult EXCEPT !.error = error]

\* a call of a function of the categorizer and what it returned
Call(op, merchant, category, threshold, result) ==
  [op |-> op, merchant |-> merchant, id |-> 0, category |-> category,
   threshold |-> threshold, result |-> result, path |-> "", recorded |-> FALSE]

\* a request, a service call or a command: the row and category it was given,
\* the path it took, whether it recorded a correction, the error it met
ServiceCall(op, id, category, path, records, error) ==
  [op |-> op, merchant |-> <<>>, id |-> id, category |-> category,
   threshold |-> 0, result |-> Failed(error), path |-> path, recorded |-> records]

\* =========================================== one categorizer instance

CatInit ==
  /\ merchant_mapping = MappingFile
  /\ files = NoFiles
  /\ cat = load_data(NoFiles)
  /\ running = TRUE
  /\ recorded = EmptyDict
  /\ call = Call("__init__", <<>>, "", 0, NoResult)
  /\ faults = 0
  /\ db = <<>>
  /\ df = <<>>
  /\ expanded_df = <<>>

\* SemanticCategorizer(data_dir): a new process, or a new instance
Construct ==
  /\ cat' = load_data(files)
  /\ running' = TRUE
  /\ recorded' = EmptyDict
  /\ call' = Call("__init__", <<>>, "", 0, NoResult)
  /\ UNCHANGED <<merchant_mapping, files, faults, db, df, expanded_df>>

PredictCategory ==
  \E merchant \in CorrectedMerchants, threshold \in {50}, modelOk \in BOOLEAN :
    \E r \in {predict_category(cat, merchant_mapping, merchant, threshold, modelOk)} :
        /\ running
        /\ modelOk \/ ~cat.model
        /\ cat' = [cat EXCEPT !.model = r.model]
        /\ call' = Call("predict_category", merchant, "", threshold, r)
        /\ UNCHANGED <<merchant_mapping, files, running, recorded, faults, db, df, expanded_df>>

\* dies: the process is killed inside _save_data instead of seeing an exception
RecordCorrection ==
  \E x \in Corrections, modelOk \in BOOLEAN, progress \in 0..SaveComplete,
     dies \in BOOLEAN :
    LET merchant == x.merchant
        actual == x.actual
        r == record_correction(cat, files, merchant, "Shopping", actual, 95,
                               modelOk, progress)
    IN  /\ running
        /\ modelOk \/ ~cat.model
        /\ Len(cat.hist) < MaxCorrections
        /\ dies => r.error = "io"
        /\ r.error # "" => faults < MaxFaults
        /\ faults' = IF r.error # "" THEN faults + 1 ELSE faults
        /\ cat' = r.c
        /\ files' = r.disk
        /\ running' = ~dies
        /\ recorded' = (merchant :> actual) @@ recorded
        /\ call' = Call("record_correction", <<>>, "", 0, Failed(r.error))
        /\ UNCHANGED <<merchant_mapping, db, df, expanded_df>>

BulkImport ==
  \E data \in ImportLists, modelOk \in BOOLEAN, progress \in 0..SaveComplete,
     dies \in BOOLEAN :
    \E r \in {bulk_import_from_existing_data(cat, files, data, modelOk, progress)} :
        /\ running
        /\ modelOk \/ ~cat.model
        /\ dies => r.error = "io"
        /\ r.error # "" => faults < MaxFaults
        /\ faults' = IF r.error # "" THEN faults + 1 ELSE faults
        /\ cat' = r.c
        /\ files' = r.disk
        /\ running' = ~dies
        /\ call' = Call("bulk_import_from_existing_data", <<>>, "", 0, Failed(r.error))
        /\ UNCHANGED <<merchant_mapping, recorded, db, df, expanded_df>>

CatNext ==
  \/ Construct
  \/ PredictCategory
  \/ RecordCorrection
  \/ BulkImport

CatSpec ==
  CatInit /\ [][CatNext]_vars

\* ==================================== the two categorization functions
\* predict_category and the batch preprocessor's categorize_transaction,
\* applied to every text of the model in categorizer states that corrections
\* lead to.

Learn(c, merchant, actual) ==
  record_correction(c, NoFiles, merchant, "Shopping", actual, 95, TRUE, SaveComplete).c

\* An instance constructed from state files that two other instances wrote:
\* the first recorded a correction of T_Joes2 and saved; the second, which had
\* loaded before that save, learned T_Joes and its _save_data stopped after
\* the embeddings file, so the correction log on disk is still the first's.
StaleLog(actual) ==
  LET first == record_correction(EmptyCategorizer, NoFiles, T_Joes2, "Shopping",
                                 actual, 95, TRUE, SaveComplete)
      second == record_correction(EmptyCategorizer, first.disk, T_Joes, "Shopping",
                                  "Dining", 95, TRUE, 4)
  IN  load_data(second.disk)

StaleLogStates ==
  {StaleLog("Shopping"), StaleLog("Groceries")}

LearnedStates ==
  LET c1 == Learn(EmptyCategorizer, T_CoopPronto, "Shopping")
      c2 == Learn(c1, T_Payment, "Groceries")
      c3 == Learn(c2, T_Joes, PaddedDining)
      c4 == Learn(c3, T_CoopCityBern, "Leisure")
  IN  {EmptyCategorizer, c1, c2, c3, c4} \cup StaleLogStates

PredictInit ==
  /\ merchant_mapping \in {<<>>, MappingFile}
  /\ cat \in LearnedStates
  /\ files = NoFiles
  /\ running = TRUE
  /\ recorded = EmptyDict
  /\ call = Call("__init__", <<>>, "", 0, NoResult)
  /\ faults = 0
  /\ db = <<>>
  /\ df = <<>>
  /\ expanded_df = <<>>

ApplyPredictCategory ==
  \E merchant \in Texts, threshold \in Thresholds, modelOk \in BOOLEAN :
    \E r \in {predict_category(cat, merchant_mapping, merchant, threshold, modelOk)} :
        /\ cat' = [cat EXCEPT !.model = r.model]
        /\ call' = Call("predict_category", merchant, "", threshold, r)
        /\ UNCHANGED <<merchant_mapping, files, running, recorded, faults, db, df, expanded_df>>

ApplyPreprocessCategorize ==
  \E description \in Texts :
    /\ call' = Call("preprocess.categorize_transaction", description, "", 0,
                    [NoResult EXCEPT !.category =
                       preprocess_categorize_transaction(description, merchant_mapping)])
    /\ UNCHANGED <<merchant_mapping, files, cat, running, recorded, faults, db, df, expanded_df>>

\* amounts of predict_with_context: none, a small expense, a large amount
ContextAmounts ==
  {<<>>, <<-12>>, <<60>>}

ApplyPredictWithContext ==
  \E merchant \in Texts, amount \in ContextAmounts, threshold \in Thresholds,
     modelOk \in BOOLEAN :
    \E r \in {predict_with_context(cat, merchant_mapping, merchant, amount,
                                   threshold, modelOk)} :
        /\ cat' = [cat EXCEPT !.model = r.model]
        /\ call' = Call("predict_with_context", merchant, "", threshold, r)
        /\ UNCHANGED <<merchant_mapping, files, running, recorded, faults, db, df, expanded_df>>

PredictNext ==
  \/ ApplyPredictCategory
  \/ ApplyPreprocessCategorize
  \/ ApplyPredictWithContext

PredictSpec ==
  PredictInit /\ [][PredictNext]_vars


\* ======================================= the web application and its commands
\* Every request constructs its own TransactionCategorizationService, whose
\* categorizer loads the state files and is dropped with the request.

\* rows in the Transaction table
MaxTx ==
  1

\* A description a keyword rule knows and the empty description.
UploadRows ==
  {Tx(T_Payment, <<-15>>, ""),
   Tx(T_Empty, <<>>, "")}

\* the category the keyword rule predicts, and another one
NewCategories ==
  {"Uncounted", "Uncategorized"}

Patterns ==
  {T_Payment}

\* What a request can meet: nothing, a service that cannot be constructed, an
\* embedding model that cannot be loaded, a state file that cannot be opened
\* for writing.
Faults ==
  {"", "init", "model", "io"}

InitOk(fault) ==
  fault # "init"

ModelOk(fault) ==
  fault # "model"

Progress(fault) ==
  IF fault = "io" THEN 0 ELSE SaveComplete

Init ==
  /\ merchant_mapping = MappingFile
  /\ files = NoFiles
  /\ cat = load_data(NoFiles)
  /\ running = TRUE
  /\ recorded = EmptyDict
  /\ call = ServiceCall("__init__", 0, "", "", FALSE, "")
  /\ faults = 0
  /\ db = <<>>
  /\ df = <<>>
  /\ expanded_df = <<>>

Upload ==
  \E row \in UploadRows, fault \in Faults :
    \E r \in {upload(files, merchant_mapping, db, <<row>>, InitOk(fault), ModelOk(fault))} :
        /\ Len(db) < MaxTx
        /\ r.error = fault
        /\ db' = r.db
        /\ call' = ServiceCall("upload", 0, "", "", FALSE, r.error)
        /\ UNCHANGED <<merchant_mapping, files, cat, running, recorded, faults, df, expanded_df>>

CategorizeTransaction ==
  \E id \in DOMAIN db, fault \in Faults :
    \E r \in {categorize_transaction(load_data(files), merchant_mapping, db[id],
                                    ModelOk(fault))} :
        /\ r.error = fault
        /\ db' = IF r.error = "" THEN [db EXCEPT ![id] = r.t] ELSE db
        /\ call' = ServiceCall("categorize_transaction", id, "", "", FALSE, r.error)
        /\ UNCHANGED <<merchant_mapping, files, cat, running, recorded, faults, df, expanded_df>>

CategorizeTransactionsBulk ==
  \E fault \in Faults :
    \E r \in {categorize_transactions_bulk(load_data(files), merchant_mapping, db,
                                          SortedSeq(DOMAIN db), ModelOk(fault))} :
        /\ db # <<>>
        /\ r.error = fault
        /\ db' = r.db
        /\ call' = ServiceCall("categorize_transactions_bulk", 0, "", "", FALSE, r.error)
        /\ UNCHANGED <<merchant_mapping, files, cat, running, recorded, faults, df, expanded_df>>

ApiRecategorizeUncategorized ==
  \E fault \in Faults :
    \E r \in {recategorize_uncategorized_transactions(load_data(files), merchant_mapping,
                                                     db, ModelOk(fault))} :
        /\ r.error = fault
        /\ db' = r.db
        /\ call' = ServiceCall("recategorize_uncategorized_transactions", 0, "", "",
                               FALSE, r.error)
        /\ UNCHANGED <<merchant_mapping, files, cat, running, recorded, faults, df, expanded_df>>

ApiUpdateCategory ==
  \E id \in 1..MaxTx, new_category \in NewCategories, fault \in Faults :
    \E r \in {api_update_category(files, db, id, new_category, InitOk(fault),
                                 ModelOk(fault), Progress(fault))} :
        /\ r.error = fault
        /\ Len(r.c.hist) <= MaxCorrections
        /\ db' = r.db
        /\ files' = r.disk
        /\ call' = ServiceCall("api_update_category", id, new_category, r.path,
                               r.recorded, r.error)
        /\ UNCHANGED <<merchant_mapping, cat, running, recorded, faults, df, expanded_df>>

ApiBulkCategorize ==
  \E merchant_pattern \in Patterns, category \in NewCategories, fault \in Faults :
    \E r \in {api_bulk_categorize(files, db, merchant_pattern, category,
                                 ModelOk(fault), Progress(fault))} :
        /\ r.error = fault
        /\ Len(r.c.hist) <= MaxCorrections
        /\ db' = r.db
        /\ files' = r.disk
        /\ call' = ServiceCall("api_bulk_categorize", 0, category, "", FALSE, r.error)
        /\ UNCHANGED <<merchant_mapping, cat, running, recorded, faults, df, expanded_df>>

RestoreUncounted ==
  /\ db' = restore_uncounted(db)
  /\ call' = ServiceCall("restore_uncounted", 0, "", "", FALSE, "")
  /\ UNCHANGED <<merchant_mapping, files, cat, running, recorded, faults, df, expanded_df>>

FixNanCategories ==
  \E fix_uncounted \in BOOLEAN :
    /\ db' = fix_nan_categories(db, fix_uncounted)
    /\ call' = ServiceCall("fix_nan_categories", 0, "", "", FALSE, "")
    /\ UNCHANGED <<merchant_mapping, files, cat, running, recorded, faults, df, expanded_df>>

\* fault: nothing, the database cannot be queried, the learned categories
\* cannot be put in a set
GetCategorizationStats ==
  \E fault \in {"", "db", "stats"} :
    \E r \in {get_categorization_stats(load_data(files), db, fault # "db",
                                       fault # "stats")} :
        /\ call' = [ServiceCall("get_categorization_stats", 0, "", "", FALSE, r.error)
                       EXCEPT !.result = [error |-> r.error, stats |-> r.stats]]
        /\ UNCHANGED <<merchant_mapping, files, cat, running, recorded, faults, db, df, expanded_df>>

Next ==
  \/ Upload
  \/ CategorizeTransaction
  \/ CategorizeTransactionsBulk
  \/ ApiRecategorizeUncategorized
  \/ ApiUpdateCategory
  \/ ApiBulkCategorize
  \/ RestoreUncounted
  \/ FixNanCategories
  \/ GetCategorizationStats

Spec ==
  Init /\ [][Next]_vars


\* ============================ manual overrides on an uploaded statement
\* A fresh installation into which one statement has been uploaded, and the
\* manual overrides that follow.  `cat` is the categorizer of the last request.

\* two rows with one description, and a third with another
Statements ==
  {<<Tx(T_Payment, <<-15>>, ""), Tx(T_Payment, <<-15>>, ""), Tx(T_Empty, <<>>, "")>>,
   <<Tx(T_Empty, <<>>, ""), Tx(T_Empty, <<>>, ""), Tx(T_Payment, <<-15>>, "")>>}

\* the category the keyword rule predicts, and another one
OverrideCategories ==
  {"Uncounted", "Groceries"}

OverrideInit ==
  /\ merchant_mapping = MappingFile
  /\ files = NoFiles
  /\ cat = load_data(NoFiles)
  /\ running = TRUE
  /\ recorded = EmptyDict
  /\ call = ServiceCall("__init__", 0, "", "", FALSE, "")
  /\ faults = 0
  /\ \E statement \in Statements :
       db = upload(NoFiles, MappingFile, <<>>, statement, TRUE, TRUE).db
  /\ df = <<>>
  /\ expanded_df = <<>>

OverrideUpdateCategory ==
  \E id \in DOMAIN db, new_category \in OverrideCategories, fault \in Faults :
    \E r \in {api_update_category(files, db, id, new_category, InitOk(fault),
                                 ModelOk(fault), Progress(fault))} :
        /\ r.error = fault
        /\ Len(r.c.hist) <= MaxCorrections
        /\ db' = r.db
        /\ files' = r.disk
        /\ cat' = r.c
        /\ call' = ServiceCall("api_update_category", id, new_category, r.path,
                               r.recorded, r.error)
        /\ UNCHANGED <<merchant_mapping, running, recorded, faults, df, expanded_df>>

OverrideBulkCategorize ==
  \E merchant_pattern \in Patterns, category \in OverrideCategories, fault \in Faults :
    \E r \in {api_bulk_categorize(files, db, merchant_pattern, category,
                                 ModelOk(fault), Progress(fault))} :
        /\ r.error = fault
        /\ Len(r.c.hist) <= MaxCorrections
        /\ db' = r.db
        /\ files' = r.disk
        /\ cat' = r.c
        /\ call' = ServiceCall("api_bulk_categorize", 0, category, "", FALSE, r.error)
        /\ UNCHANGED <<merchant_mapping, running, recorded, faults, df, expanded_df>>

OverrideNext ==
  \/ OverrideUpdateCategory
  \/ OverrideBulkCategorize

OverrideSpec ==
  OverrideInit /\ [][OverrideNext]_vars

\* ==================================================== the row expander
\* expand_zkb_child_transactions applied to every statement of at most MaxRows
\* rows.

\* rows in a statement
MaxRows ==
  2

StatementRows ==
  [Date : Dates, Booking_text : BookingTexts]

RECURSIVE SeqsUpTo(_, _)
SeqsUpTo(S, n) ==
  IF n = 0 THEN {<<>>}
  ELSE LET shorter == SeqsUpTo(S, n - 1)
       IN  shorter \cup {Append(s, x) : s \in {t \in shorter : Len(t) = n - 1}, x \in S}

\* each row carries its position in the file as its reference
Numbered(rows) ==
  [i \in 1..Len(rows) |-> [ref |-> i, Date |-> rows[i].Date,
                            Booking_text |-> rows[i].Booking_text]]

ExpandInit ==
  /\ merchant_mapping = <<>>
  /\ files = NoFiles
  /\ cat = EmptyCategorizer
  /\ running = TRUE
  /\ recorded = EmptyDict
  /\ call = Call("read_csv", <<>>, "", 0, NoResult)
  /\ faults = 0
  /\ db = <<>>
  /\ df \in {Numbered(rows) : rows \in SeqsUpTo(StatementRows, MaxRows)}
  /\ expanded_df = <<>>

Expand ==
  /\ call.op = "read_csv"
  /\ expanded_df' = expand_zkb_child_transactions(df)
  /\ call' = Call("expand_zkb_child_transactions", <<>>, "", 0, NoResult)
  /\ UNCHANGED <<merchant_mapping, files, cat, running, recorded, faults, db, df>>

\* the same file uploaded through settings_view into an empty table
WebUpload ==
  \E fault \in {"", "init"} :
    \E r \in {settings_view_upload(files, merchant_mapping, db, df, InitOk(fault), TRUE)} :
        /\ call.op = "read_csv"
        /\ r.error = fault
        /\ db' = r.db
        /\ call' = ServiceCall("settings_view", 0, "", "", FALSE, r.error)
        /\ UNCHANGED <<merchant_mapping, files, cat, running, recorded, faults, df, expanded_df>>

ExpandNext ==
  \/ Expand
  \/ WebUpload

ExpandSpec ==
  ExpandInit /\ [][ExpandNext]_vars


\* ==================================================== the sign corrector
\* fix_vault_amounts applied, again and again, to every normalized frame of at
\* most MaxRows rows.

VaultInit ==
  /\ merchant_mapping = <<>>
  /\ files = NoFiles
  /\ cat = EmptyCategorizer
  /\ running = TRUE
  /\ recorded = EmptyDict
  /\ call = Call("normalize", <<>>, "", 0, [fixed_count |-> 0])
  /\ faults = 0
  /\ db = <<>>
  /\ df \in SeqsUpTo(NormalizedRows, MaxRows)
  /\ expanded_df = <<>>

FixVaultAmounts ==
  \E r \in {fix_vault_amounts(df)} :
      /\ df' = r.df
      /\ call' = Call("fix_vault_amounts", <<>>, "", 0, [fixed_count |-> r.fixed_count])
      /\ UNCHANGED <<merchant_mapping, files, cat, running, recorded, faults, db, expanded_df>>

VaultNext ==
  FixVaultAmounts

VaultSpec ==
  VaultInit /\ [][VaultNext]_vars

\* ==================================================== the command line
\* One run of preprocess_statement.py on each statement file, with and without
\* --type and --quiet.

\* the normalized frames the files stand for
CliFrames ==
  {<<[description |-> D_ToPocket, amount |-> 7, currency |-> "CHF", Category |-> ""]>>,
   <<[description |-> T_CoopCity, amount |-> -5, currency |-> "CHF", Category |-> ""]>>}

CliInit ==
  /\ merchant_mapping = <<>>
  /\ files = NoFiles
  /\ cat = EmptyCategorizer
  /\ running = TRUE
  /\ recorded = EmptyDict
  /\ call = Call("argv", <<>>, "", 0, NoResult)
  /\ faults = 0
  /\ db = <<>>
  /\ df \in CliFrames
  /\ expanded_df = <<>>

Main ==
  /\ call.op = "argv"
  /\ \E file \in StatementFiles, type \in {None, "zkb", "revolut"}, quiet \in BOOLEAN :
       \E r \in {main(file, type, quiet, df, merchant_mapping)} :
           /\ call' = Call("main", <<>>, "", 0,
                           [input_file |-> file, type |-> type, quiet |-> quiet,
                            exit_code |-> r.exit_code, stderr |-> r.stderr,
                            stdout |-> r.stdout, run |-> r.run])
           /\ UNCHANGED <<merchant_mapping, files, cat, running, recorded, faults, db, df, expanded_df>>

CliNext ==
  Main

CliSpec ==
  CliInit /\ [][CliNext]_vars

\* ==================================================== bulk categorization
\* categorize_transactions_bulk on batches of the rows of a table of at most
\* MaxBatch rows, with and without learned merchants on disk.

\* rows in the table
MaxBatch ==
  2

\* a description a keyword rule knows, one that only the embeddings can place,
\* and the empty description
BulkRows ==
  {Tx(T_Payment, <<-15>>, ""),
   Tx(T_Joes2, <<-20>>, ""),
   Tx(T_Empty, <<>>, "")}

\* the state files after one correction of "Joes Diner"
LearnedFiles ==
  record_correction(EmptyCategorizer, NoFiles, T_Joes, "Shopping", "Dining", 95, TRUE,
                    SaveComplete).disk

\* the lists of distinct rows of a table of n rows
Batches(n) ==
  {ids \in SeqsUpTo(1..n, n) :
     /\ ids # <<>>
     /\ \A i, j \in 1..Len(ids) : ids[i] = ids[j] => i = j}

BulkInit ==
  /\ merchant_mapping = MappingFile
  /\ files \in {NoFiles, LearnedFiles}
  /\ cat = load_data(NoFiles)
  /\ running = TRUE
  /\ recorded = EmptyDict
  /\ call = ServiceCall("__init__", 0, "", "", FALSE, "")
  /\ faults = 0
  /\ db \in SeqsUpTo(BulkRows, MaxBatch) \ {<<>>}
  /\ df = <<>>
  /\ expanded_df = <<>>

BulkCategorize ==
  \E ids \in Batches(Len(db)), fault \in {"", "model"} :
    \E r \in {categorize_transactions_bulk(load_data(files), merchant_mapping, db, ids,
                                          ModelOk(fault))} :
        /\ r.error = fault
        /\ db' = r.db
        /\ call' = [ServiceCall("categorize_transactions_bulk", 0, "", "", FALSE, r.error)
                       EXCEPT !.result = [error |-> r.error, ids |-> ids,
                                          writes |-> r.writes, stats |-> r.stats]]
        /\ UNCHANGED <<merchant_mapping, files, cat, running, recorded, faults, df, expanded_df>>

BulkNext ==
  BulkCategorize

BulkSpec ==
  BulkInit /\ [][BulkNext]_vars

\* ==================================================== the two normalizers
\* convert_zkb_to_normalized and parse_zkb on every ZKB frame of at most
\* MaxRows rows; call.result holds the columns of the frame.

\* a column that the file does not have reads as missing in every row
ZkbFrames(columns) ==
  {rows \in SeqsUpTo(ZkbRows, MaxRows) :
     \A i \in 1..Len(rows) :
       /\ "Date" \notin columns => rows[i].Date = NaN
       /\ "Value date" \notin columns => rows[i].Value_date = NaN}

NormalizeInit ==
  /\ merchant_mapping = <<>>
  /\ files = NoFiles
  /\ cat = EmptyCategorizer
  /\ running = TRUE
  /\ recorded = EmptyDict
  /\ \E columns \in ZkbColumns :
       /\ call = Call("read_csv", <<>>, "", 0, [columns |-> columns])
       /\ df \in ZkbFrames(columns)
  /\ faults = 0
  /\ db = <<>>
  /\ expanded_df = <<>>

ConvertZkbToNormalized ==
  /\ call.op = "read_csv"
  /\ expanded_df' = convert_zkb_to_normalized(call.result.columns, df)
  /\ call' = Call("convert_zkb_to_normalized", <<>>, "", 0, call.result)
  /\ UNCHANGED <<merchant_mapping, files, cat, running, recorded, faults, db, df>>

ParseZkb ==
  /\ call.op = "read_csv"
  /\ expanded_df' = parse_zkb(call.result.columns, df)
  /\ call' = Call("parse_zkb", <<>>, "", 0, call.result)
  /\ UNCHANGED <<merchant_mapping, files, cat, running, recorded, faults, db, df>>

NormalizeNext ==
  \/ ConvertZkbToNormalized
  \/ ParseZkb

NormalizeSpec ==
  NormalizeInit /\ [][NormalizeNext]_vars

\* ============================= two instances over one data directory
\* Every TransactionCategorizationService constructs its own
\* SemanticCategorizer over settings.BASE_DIR/semantic_data, so two requests
\* served at the same time hold two instances over the same three files.  cat
\* maps an instance to its in-memory state; recorded holds the corrections
\* whose record_correction has returned.

Instances ==
  {1, 2}

SharedCorrections ==
  {[merchant |-> T_Joes, actual |-> "Dining"],
   [merchant |-> T_CoopCityBern, actual |-> "Shopping"],
   [merchant |-> T_CoopCityBern, actual |-> "Leisure"]}

SharedInit ==
  /\ merchant_mapping = MappingFile
  /\ files = NoFiles
  /\ cat = [i \in Instances |-> load_data(NoFiles)]
  /\ running = TRUE
  /\ recorded = EmptyDict
  /\ call = Call("__init__", <<>>, "", 0, NoResult)
  /\ faults = 0
  /\ db = <<>>
  /\ df = <<>>
  /\ expanded_df = <<>>

\* a request ends and the next one constructs its service
SharedConstruct ==
  \E i \in Instances :
    /\ cat' = [cat EXCEPT ![i] = load_data(files)]
    /\ call' = [Call("__init__", <<>>, "", 0, NoResult) EXCEPT !.id = i]
    /\ UNCHANGED <<merchant_mapping, files, running, recorded, faults, db, df, expanded_df>>

SharedRecordCorrection ==
  \E i \in Instances, x \in SharedCorrections :
    /\ Len(cat[i].hist) < MaxCorrections
    /\ \E r \in {record_correction(cat[i], files, x.merchant, "Shopping", x.actual,
                                   95, TRUE, SaveComplete)} :
         /\ cat' = [cat EXCEPT ![i] = r.c]
         /\ files' = r.disk
         /\ recorded' = (x.merchant :> x.actual) @@ recorded
         /\ call' = [Call("record_correction", x.merchant, x.actual, 0, Failed(r.error))
                       EXCEPT !.id = i]
    /\ UNCHANGED <<merchant_mapping, running, faults, db, df, expanded_df>>

SharedNext ==
  \/ SharedConstruct
  \/ SharedRecordCorrection

SharedSpec ==
  SharedInit /\ [][SharedNext]_vars

\* ================================ one instance from the empty categorizer
\* The three learning calls and predict_category on an instance that starts
\* empty and is never reconstructed.

LearnCorrections ==
  [merchant : {T_JoesPadded, T_Joes2}, predicted : {"Shopping"},
   actual : {"Shopping", "Dining"}]

LearnMerchants ==
  {T_CoopCityBern, T_JoesPadded}

LearnInit ==
  /\ merchant_mapping = MappingFile
  /\ files = NoFiles
  /\ cat = EmptyCategorizer
  /\ running = TRUE
  /\ recorded = EmptyDict
  /\ call = Call("__init__", <<>>, "", 0, NoResult)
  /\ faults = 0
  /\ db = <<>>
  /\ df = <<>>
  /\ expanded_df = <<>>

LearnRecordCorrection ==
  \E x \in LearnCorrections, modelOk \in BOOLEAN :
    /\ modelOk \/ ~cat.model
    /\ Len(cat.hist) < MaxCorrections
    /\ ~modelOk => faults < MaxFaults
    /\ \E r \in {record_correction(cat, files, x.merchant, x.predicted, x.actual, 95,
                                   modelOk, SaveComplete)} :
         /\ cat' = r.c
         /\ files' = r.disk
         /\ faults' = IF r.error # "" THEN faults + 1 ELSE faults
         /\ call' = Call("record_correction", x.merchant, x.actual, 0, Failed(r.error))
    /\ UNCHANGED <<merchant_mapping, running, recorded, db, df, expanded_df>>

\* add_known_merchant with its default save=True
LearnAddKnownMerchant ==
  \E merchant \in LearnMerchants, modelOk \in BOOLEAN :
    /\ modelOk \/ ~cat.model
    /\ ~modelOk => faults < MaxFaults
    /\ \E r \in {add_known_merchant(cat, merchant, "Leisure", modelOk)} :
         /\ cat' = r.c
         /\ files' = IF r.error = "" THEN save_data(r.c, files, SaveComplete) ELSE files
         /\ faults' = IF r.error # "" THEN faults + 1 ELSE faults
         /\ call' = Call("add_known_merchant", merchant, "Leisure", 0, Failed(r.error))
    /\ UNCHANGED <<merchant_mapping, running, recorded, db, df, expanded_df>>

LearnBulkImport ==
  \E data \in ImportLists, modelOk \in BOOLEAN :
    /\ modelOk \/ ~cat.model
    /\ ~modelOk => faults < MaxFaults
    /\ \E r \in {bulk_import_from_existing_data(cat, files, data, modelOk, SaveComplete)} :
         /\ cat' = r.c
         /\ files' = r.disk
         /\ faults' = IF r.error # "" THEN faults + 1 ELSE faults
         /\ call' = Call("bulk_import_from_existing_data", <<>>, "", 0, Failed(r.error))
    /\ UNCHANGED <<merchant_mapping, running, recorded, db, df, expanded_df>>

LearnPredictCategory ==
  \E merchant \in {T_Joes, T_JoesPadded, T_Joes2, T_JoesBar, T_CoopCityBern},
     threshold \in Thresholds :
    /\ cat.model
    /\ \E r \in {predict_category(cat, merchant_mapping, merchant, threshold, TRUE)} :
         call' = Call("predict_category", merchant, "", threshold, r)
    /\ UNCHANGED <<merchant_mapping, files, cat, running, recorded, faults, db, df, expanded_df>>

LearnNext ==
  \/ LearnRecordCorrection
  \/ LearnAddKnownMerchant
  \/ LearnBulkImport
  \/ LearnPredictCategory

LearnSpec ==
  LearnInit /\ [][LearnNext]_vars
\* ================================================================ claims

MappingHit(merchant) ==
  Truthy(check_merchant_mapping(merchant_mapping, Strip(merchant)).category)

KeywordHit(merchant) ==
  Truthy(KeywordRulesOf[Strip(merchant)].category)

ExactKeys(description) ==
  {i \in 1..Len(merchant_mapping) : merchant_mapping[i].key = Strip(description)}

\* C1: predict_category returns the merchant mapping's category whenever the
\* mapping tier hits, and the keyword rule's category whenever the mapping
\* misses and a rule hits, whatever the learned merchants say; the batch
\* preprocessor's categorize_transaction returns the category of an exact
\* mapping key before any keyword is consulted.
C1_TierPrecedence ==
  /\ call.op = "predict_category" =>
       LET merchant == Strip(call.merchant)
           mapped == check_merchant_mapping(merchant_mapping, merchant)
           keyword == check_keyword_rules(merchant)
       IN  /\ Truthy(mapped.category) =>
                 /\ call.result.error = ""
                 /\ call.result.category = mapped.category
                 /\ call.result.confidence = mapped.confidence
           /\ ~Truthy(mapped.category) /\ Truthy(keyword.category) =>
                 /\ call.result.error = ""
                 /\ call.result.category = keyword.category
                 /\ call.result.confidence = 95
  /\ call.op = "preprocess.categorize_transaction" /\ call.merchant # <<>> =>
       \A i \in ExactKeys(call.merchant) :
         call.result.category = merchant_mapping[i].category

\* the mapping, a keyword rule and the learned table name three different
\* categories for the merchant of the call, and the mapping's was returned
C1_Witness ==
  /\ call.op = "predict_category"
  /\ MappingHit(call.merchant)
  /\ KeywordHit(call.merchant)
  /\ Strip(call.merchant) \in DOMAIN cat.known
  /\ LET merchant == Strip(call.merchant)
         mapped == check_merchant_mapping(merchant_mapping, merchant).category
     IN  /\ KeywordRulesOf[merchant].category # mapped
         /\ cat.known[merchant] \notin {mapped, KeywordRulesOf[merchant].category}
         /\ call.result.category = mapped

\* C5 as stated: after a correction of merchant M to category A on an
\* instance, predict_category(M) on that instance returns A (read without
\* surrounding whitespace) with confidence 1.0, whatever the mapping and the
\* keyword rules say about M.
C5_AsStated ==
  running =>
    \A merchant \in DOMAIN recorded :
      \A threshold \in Thresholds, modelOk \in BOOLEAN :
        LET r == predict_category(cat, merchant_mapping, merchant, threshold, modelOk)
        IN  /\ r.error = ""
            /\ r.category = StripCategory(recorded[merchant])
            /\ r.confidence = 100

\* C5: after a correction of merchant M to category A on an instance, and
\* until another correction of M, predict_category(M) on that instance returns
\* A without its surrounding whitespace, with confidence 1.0, provided that M
\* hits neither the merchant mapping nor a keyword rule.
C5_LearnedAfterCorrection ==
  running =>
    \A merchant \in DOMAIN recorded :
      ~MappingHit(merchant) /\ ~KeywordHit(merchant) =>
        \A threshold \in Thresholds, modelOk \in BOOLEAN :
          predict_category(cat, merchant_mapping, merchant, threshold, modelOk)
            = Returned(StripCategory(recorded[merchant]), 100, cat.model)

\* a corrected merchant that misses both earlier tiers was predicted, and the
\* corrected category came back
C5_Witness ==
  /\ running
  /\ call.op = "predict_category"
  /\ call.merchant \in DOMAIN recorded
  /\ ~MappingHit(call.merchant)
  /\ ~KeywordHit(call.merchant)
  /\ Len(cat.hist) = 2
  /\ call.result = Returned(StripCategory(recorded[call.merchant]), 100, cat.model)

LoadedMerchantKeys ==
  DOMAIN load_data(files).known

LoadedEmbeddingKeys ==
  SeqRange(load_data(files).emb)

\* C6: when the process has been killed inside _save_data, the merchants the
\* merchants file holds are the merchants the embeddings file holds, so that
\* a restart loads two tables over one merchant set.
C6_FilesAgreeAfterCrash ==
  ~running => LoadedMerchantKeys = LoadedEmbeddingKeys


AutomatedOps ==
  {"categorize_transaction", "categorize_transactions_bulk",
   "recategorize_uncategorized_transactions"}

\* C2: a step of categorize_transaction, categorize_transactions_bulk or
\* recategorize_uncategorized_transactions leaves the category, the confidence
\* and the flag of every manually categorized transaction as they were.
C2_ManualKeptByAutomation ==
  [][call'.op \in AutomatedOps =>
       \A i \in DOMAIN db :
         db[i].is_manually_categorized =>
           /\ i \in DOMAIN db'
           /\ db'[i].category = db[i].category
           /\ db'[i].category_confidence = db[i].category_confidence
           /\ db'[i].is_manually_categorized]_vars

\* categorize_transactions_bulk has run over a manually categorized row whose
\* description a keyword rule would give another category
C2_Witness ==
  /\ call.op = "categorize_transactions_bulk"
  /\ call.result.error = ""
  /\ \E i \in DOMAIN db :
       /\ db[i].is_manually_categorized
       /\ KeywordHit(db[i].booking_text)
       /\ db[i].category # KeywordRulesOf[Strip(db[i].booking_text)].category

\* C3: every manually categorized transaction has confidence 1.0, in every
\* state that uploads, automated categorization, manual overrides on both
\* paths, bulk re-labelling and the maintenance commands lead to.
C3_ManualHasFullConfidence ==
  \A i \in DOMAIN db :
    db[i].is_manually_categorized => db[i].category_confidence = 100

\* a maintenance command has run and a manually categorized row is there
C3_Witness ==
  /\ call.op \in {"restore_uncounted", "fix_nan_categories"}
  /\ \E i \in DOMAIN db :
       /\ db[i].is_manually_categorized
       /\ db[i].predicted_category # ""
       /\ db[i].category # db[i].predicted_category

SetManually(t, new_category) ==
  [t EXCEPT !.category = new_category, !.is_manually_categorized = TRUE,
            !.category_confidence = 100]

\* C4 as stated: after record_manual_categorization(t, C) returned True, t and
\* every row with t's description that was not manually categorized carry C,
\* the flag and confidence 1.0, and every other row is as it was.
C4_AsStated ==
  [][call'.op = "api_update_category" /\ call'.path = "service" =>
       \A i \in DOMAIN db :
         IF \/ i = call'.id
            \/ /\ db[i].booking_text = db[call'.id].booking_text
               /\ ~db[i].is_manually_categorized
           THEN db'[i] = SetManually(db[i], call'.category)
           ELSE db'[i] = db[i]]_vars

\* C4: after record_manual_categorization(t, C) returned True, t carries C,
\* the flag and confidence 1.0; so does, when t's description is not empty,
\* every other row with that description that was not manually categorized;
\* every other row is as it was (when t's description is empty, every row
\* but t).
C4_PropagationFrame ==
  [][call'.op = "api_update_category" /\ call'.path = "service" =>
       \A i \in DOMAIN db :
         IF \/ i = call'.id
            \/ /\ db[call'.id].booking_text # <<>>
               /\ db[i].booking_text = db[call'.id].booking_text
               /\ ~db[i].is_manually_categorized
           THEN db'[i] = SetManually(db[i], call'.category)
           ELSE db'[i] = db[i]]_vars

\* an override went through the service, a second row with the same
\* description carries its category, and a row with another description has
\* not been touched
C4_Witness ==
  /\ call.op = "api_update_category"
  /\ call.path = "service"
  /\ \E j \in DOMAIN db :
       /\ j # call.id
       /\ db[j].booking_text = db[call.id].booking_text
       /\ db[j] = SetManually(db[j], call.category)
       /\ db[call.id] = SetManually(db[call.id], call.category)
  /\ \E k \in DOMAIN db :
       /\ db[k].booking_text # db[call.id].booking_text
       /\ ~db[k].is_manually_categorized

\* C7: a record_manual_categorization call appends one correction record
\* (the row's description, its stored predicted_category, the new category)
\* to the log of its categorizer exactly when the row had a non-empty
\* predicted_category different from the new category, and when the call
\* returns True that log is the one on disk; in every other case the
\* categorizer is as it was loaded and the state files are as they were.
C7_CorrectionExactlyWhenPredictionDiffers ==
  [][(/\ call'.op = "api_update_category"
      /\ call'.id \in DOMAIN db
      /\ call'.result.error # "init") =>
       LET t == db[call'.id]
           before == load_data(files)
       IN  IF t.predicted_category # "" /\ t.predicted_category # call'.category
             THEN /\ cat'.hist = Append(before.hist,
                                   Correction(t.booking_text, t.predicted_category,
                                              call'.category, t.category_confidence))
                  /\ call'.path = "service" => files'.corrections = OkFile(cat'.hist)
             ELSE /\ cat' = before
                  /\ files' = files]_vars

\* an override recorded a correction and was propagated to a second row that
\* has a prediction of its own, and the log holds one record
C7_Witness ==
  /\ call.op = "api_update_category"
  /\ call.path = "service"
  /\ call.recorded
  /\ Len(cat.hist) = 1
  /\ files.corrections = OkFile(cat.hist)
  /\ \E j \in DOMAIN db :
       /\ j # call.id
       /\ db[j].is_manually_categorized
       /\ db[j].category = call.category
       /\ db[j].predicted_category \notin {"", call.category}

\* C8: an api_update_category request for an existing transaction leaves it
\* with the new category, the flag set and confidence 1.0, whether the
\* service succeeded or failed.
C8_UpdateAlwaysApplied ==
  [][call'.op = "api_update_category" /\ call'.id \in DOMAIN db =>
       /\ db'[call'.id].category = call'.category
       /\ db'[call'.id].is_manually_categorized
       /\ db'[call'.id].category_confidence = 100]_vars

\* recording the correction failed inside the service and the row carries the
\* new category all the same
C8_Witness ==
  /\ call.op = "api_update_category"
  /\ call.path = "fallback"
  /\ call.recorded
  /\ call.result.error \in {"model", "io"}
  /\ db[call.id].category = call.category
  /\ db[call.id].is_manually_categorized
  /\ db[call.id].category_confidence = 100

\* C9: a run of restore_uncounted or fix_nan_categories leaves the category of
\* every manually categorized transaction as it was and its flag set.
C9_CommandsKeepManual ==
  [][call'.op \in {"restore_uncounted", "fix_nan_categories"} =>
       \A i \in DOMAIN db :
         db[i].is_manually_categorized =>
           /\ db'[i].category = db[i].category
           /\ db'[i].is_manually_categorized]_vars

\* the row's own Date field holds a date
HasOwnDate(row) ==
  /\ row.Date # NaN
  /\ Strip(row.Date) # <<>>
  /\ Strip(row.Date) # D_Header

IsParent(row) ==
  Search(parent_pattern, row.Booking_text)

\* C10 as stated: no row whose booking text ends with "(N)" is in the output
\* of expand_zkb_child_transactions, whatever its Date field holds.
C10_AsStated ==
  call.op = "expand_zkb_child_transactions" =>
    \A j \in 1..Len(expanded_df) : ~IsParent(expanded_df[j])

\* C10: no row whose booking text ends with "(N)" and whose own Date field
\* holds a date (it is not missing, not blank and not the word Date) is in the
\* output of expand_zkb_child_transactions, whether or not child rows follow.
C10_DatedParentsRemoved ==
  call.op = "expand_zkb_child_transactions" =>
    \A i \in 1..Len(df) :
      IsParent(df[i]) /\ HasOwnDate(df[i]) =>
        \A j \in 1..Len(expanded_df) : expanded_df[j].ref # df[i].ref

\* a dated parent row and a child row went in, the child came out
C10_Witness ==
  /\ call.op = "expand_zkb_child_transactions"
  /\ Len(df) = 2
  /\ IsParent(df[1])
  /\ HasOwnDate(df[1])
  /\ df[2].Date = NaN
  /\ Len(expanded_df) = 1
  /\ expanded_df[1].ref = 2


\* the number N of a booking text that ends with "(N)"
RECURSIVE ToNumber(_)
ToNumber(s) ==
  IF s = <<>> THEN 0
  ELSE 10 * ToNumber(SubSeq(s, 1, Len(s) - 1))
         + (CHOOSE d \in 0..9 : <<"0","1","2","3","4","5","6","7","8","9">>[d + 1] = s[Len(s)])

ParentCount(text) ==
  LET t == RStrip(text)
      open == CHOOSE i \in 1..Len(t) : t[i] = "(" /\ \A j \in (i + 1)..Len(t) : t[j] # "("
  IN  ToNumber(SubSeq(t, open + 1, Len(t) - 1))

\* the rows of the output that came from row i of the input
OutputOf(i) ==
  {j \in 1..Len(expanded_df) : expanded_df[j].ref = df[i].ref}

\* the Date field is missing, or empty once stripped
EmptyDate(row) ==
  row.Date = NaN \/ Strip(row.Date) = <<>>

\* the rows before row i that have a date of their own
DatedBefore(i) ==
  {j \in 1..(i - 1) : HasOwnDate(df[j])}

\* C11: after an upload through settings_view no stored transaction comes
\* from a parent row of the file, a row with a date of its own whose booking
\* text ends with the "(N)" count marker.
C11_NoParentStored ==
  call.op = "settings_view" =>
    \A i \in 1..Len(df) :
      IsParent(df[i]) /\ HasOwnDate(df[i]) =>
        \A j \in DOMAIN db : db[j].ref # df[i].ref

\* C12: in the output of expand_zkb_child_transactions every row whose Date
\* field was empty or missing carries the date of the nearest preceding row
\* with a date of its own, and keeps its Date field when there is none.
C12_EmptyDatesInherit ==
  call.op = "expand_zkb_child_transactions" =>
    \A i \in 1..Len(df) :
      EmptyDate(df[i]) =>
        /\ OutputOf(i) # {}
        /\ \A j \in OutputOf(i) :
             IF DatedBefore(i) = {}
               THEN expanded_df[j].Date = df[i].Date
               ELSE expanded_df[j].Date =
                      Strip(df[CHOOSE m \in DatedBefore(i) :
                                 \A n \in DatedBefore(i) : n <= m].Date)

HasMarker(row) ==
  \E keyword \in vault_keywords : Contains(Lower(row.description), keyword)

\* C14: a pass of fix_vault_amounts negates the amount of exactly the rows
\* whose description holds a vault-transfer marker and whose amount is above
\* zero, leaves every other row and every other field as it was, leaves no
\* marked row with an amount above zero, and returns the number of rows it
\* negated.
C14_NegatesExactlyPositiveVaultRows ==
  [][ call'.op = "fix_vault_amounts" =>
        /\ Len(df') = Len(df)
        /\ \A i \in 1..Len(df) :
             IF HasMarker(df[i]) /\ df[i].amount > 0
               THEN df'[i] = [df[i] EXCEPT !.amount = 0 - df[i].amount]
               ELSE df'[i] = df[i]
        /\ \A i \in 1..Len(df') : HasMarker(df'[i]) => df'[i].amount <= 0
        /\ call'.result.fixed_count =
             Cardinality({i \in 1..Len(df) : df'[i].amount # df[i].amount}) ]_vars

\* a pass has negated one marked row, written in mixed case, and left the
\* unmarked row with its amount above zero
C14_Witness ==
  /\ call.op = "fix_vault_amounts"
  /\ call.result.fixed_count = 1
  /\ Len(df) = 2
  /\ df[1].description = D_ToVault /\ df[1].amount = -7
  /\ df[2].description = T_CoopCity /\ df[2].amount = 7

\* C15: a second pass of fix_vault_amounts over the output of a first pass
\* changes no amount and reports zero fixed rows.
C15_SecondPassChangesNothing ==
  [][ call.op = "fix_vault_amounts" =>
        /\ df' = df
        /\ call'.result.fixed_count = 0 ]_vars

\* the output of a pass that negated two rows
C15_Witness ==
  /\ call.op = "fix_vault_amounts"
  /\ call.result.fixed_count = 0
  /\ Len(df) = 2
  /\ df[1].description = D_ToPocket /\ df[1].amount = -7
  /\ df[2].description = D_ToVault /\ df[2].amount = -7

\* C16: with no --type and a file of no recognized dialect, the run stops with
\* an error before any step, writes no output file and assumes no dialect, and
\* the command exits with a code other than zero and a message on stderr.
C16_UnknownDialectStops ==
  call.op = "main" /\ call.result.type = None
                   /\ detect_bank_type(call.result.input_file) = "unknown" =>
    /\ call.result.run.error # ""
    /\ call.result.run.steps = <<>>
    /\ call.result.run.output = NoOutput
    /\ call.result.run.bank_type \notin {"zkb", "revolut"}
    /\ call.result.exit_code # 0
    /\ call.result.stderr # <<>>

\* an existing, readable file of no recognized dialect was run without --type
C16_Witness ==
  /\ call.op = "main"
  /\ call.result.type = None
  /\ call.result.input_file.exists /\ call.result.input_file.parses
  /\ call.result.input_file.name = N_Other
  /\ call.result.input_file.first_line = L_Other
  /\ call.result.exit_code = 1
  /\ call.result.run.output = NoOutput

\* the categorizer is as its constructor made it from state files of which at
\* least one was missing or corrupt
DegradedStart ==
  /\ [cat EXCEPT !.model = FALSE] = load_data(files)
  /\ \E f \in DOMAIN files : files[f].st # "ok"

\* C17: a categorizer constructed from state files of which some are missing
\* or corrupt answers every predict_category call without raising, as long as
\* the embedding model can be loaded.
C17_PredictAfterDegradedStart ==
  call.op = "predict_category" /\ DegradedStart /\ call.result.error # "model" =>
    call.result.error = ""

\* C18: get_categorization_stats never raises; when something inside it fails
\* it returns statistics that carry the error.
C18_StatsNeverRaise ==
  call.op = "get_categorization_stats" => call.result.error = ""

\* C19: categorize_transactions_bulk writes to the Transaction table once, with
\* one bulk_update of the whole batch after the loop, and not at all when
\* categorizing a row of the batch raises: the table is then as it was.
C19_OneAggregateWrite ==
  [][ call'.op = "categorize_transactions_bulk" =>
        IF call'.result.error # ""
          THEN call'.result.writes = <<>> /\ db' = db
          ELSE /\ call'.result.writes = <<[op |-> "bulk_update", ids |-> SeqRange(call'.result.ids)]>>
               /\ \A i \in DOMAIN db : i \notin SeqRange(call'.result.ids) => db'[i] = db[i] ]_vars

\* a batch of two rows whose second row raised after the first had been given a
\* category in memory: the first row is stored as it was
C19_Witness ==
  /\ call.op = "categorize_transactions_bulk"
  /\ call.result.error = "model"
  /\ call.result.ids = <<1, 2>>
  /\ call.result.writes = <<>>
  /\ db = <<Tx(T_Payment, <<-15>>, ""), Tx(T_Joes2, <<-20>>, "")>>

\* C20: bulk_import_from_existing_data leaves every merchant that is in
\* known_merchants with the category and the embedding it had, whatever the
\* imported data say about it and however the call ends.
C20_ImportKeepsKnown ==
  [][ call'.op = "bulk_import_from_existing_data" =>
        /\ \A m \in DOMAIN cat.known :
             m \in DOMAIN cat'.known /\ cat'.known[m] = cat.known[m]
        /\ Len(cat'.emb) >= Len(cat.emb)
        /\ \A i \in 1..Len(cat.emb) : cat'.emb[i] = cat.emb[i] ]_vars

\* an import naming "Joes Diner" as Leisure has run on a categorizer that a
\* correction had taught "Joes Diner" is Dining
C20_Witness ==
  /\ call.op = "bulk_import_from_existing_data"
  /\ T_Joes \in DOMAIN recorded
  /\ T_Joes \in DOMAIN cat.known
  /\ cat.known[T_Joes] = "Dining"
  /\ \E data \in ImportLists : \E k \in 1..Len(data) :
       data[k].merchant = T_Joes /\ data[k].category = "Leisure"

\* C21: a manual override, with its propagation to the other transactions of
\* the same merchant, leaves the predicted_category of every transaction as the
\* automated categorization set it.
C21_OverrideKeepsPrediction ==
  [][ call'.op \in {"api_update_category", "api_bulk_categorize"} =>
        /\ Len(db') = Len(db)
        /\ \A i \in DOMAIN db : db'[i].predicted_category = db[i].predicted_category ]_vars

\* an override to Groceries has reached the row it named and the other row of
\* the same merchant, both predicted Uncounted by the upload
C21_Witness ==
  /\ call.op = "api_update_category"
  /\ call.result.error = ""
  /\ Len(db) = 3
  /\ \A i \in {1, 2} :
       /\ db[i].booking_text = T_Payment
       /\ db[i].is_manually_categorized
       /\ db[i].category = "Groceries"
       /\ db[i].predicted_category = "Uncounted"

\* a row that supplies both its Date and its Value date
SuppliesBoth(row) ==
  row.Date # NaN /\ row.Value_date # NaN

\* C22: for a row of a ZKB frame that supplies both a "Value date" and a
\* "Date", the value_date of the normalized row is the row's "Value date" (as
\* read by convert_zkb_to_normalized, parsed by parse_zkb).
C22_ValueDatePreferred ==
  /\ call.op = "convert_zkb_to_normalized" =>
       \A i \in 1..Len(df) :
         SuppliesBoth(df[i]) => expanded_df[i].value_date = df[i].Value_date
  /\ call.op = "parse_zkb" =>
       \A i \in 1..Len(df) :
         SuppliesBoth(df[i]) => expanded_df[i].value_date = parse_date(df[i].Value_date)

\* C23: predict_category on "TWINT: , Hans Müller +41791234567", which no
\* mapping entry resolves, returns Uncounted with the confidence of a keyword
\* rule, whatever has been learned, and does not load the embedding model.
C23_TwintPersonUncounted ==
  call.op = "predict_category" /\ call.merchant = T_TwintPerson =>
    /\ call.result.error = ""
    /\ call.result.category = "Uncounted"
    /\ call.result.confidence = 95
    /\ ~call.result.model

\* ---------------------------------------------------------------- C24
\* What the semantic tier of predict_category works on: the stripped input,
\* the learned merchants more similar than the threshold, the best of them.
SemanticMiss(c, mapping, merchant) ==
  /\ ~Truthy(check_merchant_mapping(mapping, merchant).category)
  /\ ~Truthy(KeywordRulesOf[merchant].category)
  /\ merchant \notin DOMAIN c.known

AboveThreshold(c, merchant, threshold) ==
  {i \in 1..Len(c.emb) : Sim(merchant, c.emb[i]) > threshold}

Largest(S) ==
  CHOOSE x \in S : \A y \in S : y <= x

BestSimilarity(c, merchant, threshold) ==
  Largest({Sim(merchant, c.emb[i]) : i \in AboveThreshold(c, merchant, threshold)})

\* C24: when no mapping entry, keyword rule or learned exact entry resolves
\* the merchant and its most similar learned merchant b is more similar than
\* the threshold, predict_category returns the category of b with the
\* confidence clamp(s + adj(m), 0, 1), the adjustment being that of the input
\* merchant; the confidence lies in [0, 1].
C24_SemanticTier ==
  (/\ call.op = "predict_category"
   /\ call.result.error = ""
   /\ SemanticMiss(cat, merchant_mapping, Strip(call.merchant))
   /\ AboveThreshold(cat, Strip(call.merchant), call.threshold) # {})
  => LET m == Strip(call.merchant)
         s == BestSimilarity(cat, m, call.threshold)
     IN  /\ \E i \in AboveThreshold(cat, m, call.threshold) :
               /\ Sim(m, cat.emb[i]) = s
               /\ call.result.category = cat.known[cat.emb[i]]
         /\ call.result.confidence =
              Min({100, Largest({0, s + confidence_adjustment(cat.adj, m)})})
         /\ call.result.confidence \in 0..100

\* the tier answered for a merchant that has an adjustment and the clamp acted
C24_Witness ==
  /\ call.op = "predict_category"
  /\ call.result.error = ""
  /\ SemanticMiss(cat, merchant_mapping, Strip(call.merchant))
  /\ AboveThreshold(cat, Strip(call.merchant), call.threshold) # {}
  /\ confidence_adjustment(cat.adj, Strip(call.merchant)) = 20
  /\ call.result.confidence = 100
  /\ call.result.category = "Dining"

\* ---------------------------------------------------------------- C25
\* C25: predict_with_context returns the category predict_category returns
\* for the same merchant and threshold (none exactly when predict_category
\* returns none), with a confidence of at least the base confidence and at
\* most 1.0.
C25_ContextKeepsCategory ==
  [][call'.op = "predict_with_context"
       => \E modelOk \in BOOLEAN :
            LET base == predict_category(cat, merchant_mapping, call'.merchant,
                                         call'.threshold, modelOk)
            IN  /\ base.error = call'.result.error
                /\ base.error = ""
                     => /\ call'.result.category = base.category
                        /\ call'.result.confidence >= base.confidence
                        /\ call'.result.confidence <= 100]_vars

\* a boost was added to a semantic match
C25_Witness ==
  /\ call.op = "predict_with_context"
  /\ call.merchant = T_JoesBar
  /\ call.result.category = "Dining"
  /\ call.result.confidence = 85

\* ---------------------------------------------------------------- C26
\* C26: in every in-memory state of a categorizer, reached by construction
\* from the state files and by add_known_merchant, record_correction and
\* bulk_import_from_existing_data calls, failing ones included, the learned
\* merchant-to-category table and the merchant-to-embedding table have the
\* same merchant key set.
C26_SameKeySets ==
  DOMAIN cat.known = {cat.emb[i] : i \in 1..Len(cat.emb)}

\* ---------------------------------------------------------------- C27
\* the merchants of a persisted table
PersistedKeys(file) ==
  IF file.st = "ok" THEN DOMAIN file.data ELSE {}

PersistedEmbeddingKeys(file) ==
  IF file.st = "ok" THEN {file.data[i] : i \in 1..Len(file.data)} ELSE {}

PersistedLog(file) ==
  IF file.st = "ok" THEN {file.data[i].merchant : i \in 1..Len(file.data)} ELSE {}

\* C27: when two instances over one data directory have each recorded a
\* correction, each having loaded its state before the other saved, the
\* persisted correction log holds both corrections and the persisted merchant
\* and embedding tables hold both merchants, with identical key sets.
C27_NoWriteLost ==
  /\ \A m \in DOMAIN recorded :
       /\ m \in PersistedLog(files.corrections)
       /\ m \in PersistedKeys(files.merchants)
       /\ m \in PersistedEmbeddingKeys(files.embeddings)
  /\ PersistedKeys(files.merchants) = PersistedEmbeddingKeys(files.embeddings)

\* ---------------------------------------------------------------- C28
\* the categorizer of the request has no prediction for the transaction
NoPrediction(t) ==
  predict_with_context(load_data(files), merchant_mapping, t.booking_text, t.amount,
                       DefaultContextThreshold, TRUE).category = None

\* C28: a transaction for which the categorizer returns no prediction gets no
\* predicted_category, and categorize_transactions_bulk counts it under
\* "uncategorized", never under "categorized" or "low_confidence"; for every
\* batch categorized + uncategorized = total.
C28_NoPredictionUncategorized ==
  (call.op = "categorize_transactions_bulk" /\ call.result.error = "")
  => LET ids == call.result.ids
         stats == call.result.stats
         none == {k \in 1..Len(ids) : NoPrediction(db[ids[k]])}
     IN  /\ \A k \in none : db[ids[k]].predicted_category = ""
         /\ stats.categorized + stats.uncategorized = stats.total
         /\ stats.uncategorized >= Cardinality(none)
         /\ stats.categorized <= Len(ids) - Cardinality(none)
         /\ none = 1..Len(ids) => stats.low_confidence = 0

\* ---------------------------------------------------------------- C29
\* the last record of the correction history that names the merchant
LastCorrection(hist, merchant) ==
  hist[Largest({i \in 1..Len(hist) : hist[i].merchant = merchant})]

\* C29: after any sequence of record_correction calls, and after reloading
\* the correction log, the adjustment of a merchant is -0.3 when its most
\* recent correction had predicted different from actual and +0.2 when it had
\* them equal; a merchant without a correction has no adjustment.
C29_AdjustmentFollowsLastCorrection ==
  /\ DOMAIN cat.adj = {cat.hist[i].merchant : i \in 1..Len(cat.hist)}
  /\ \A m \in DOMAIN cat.adj :
       cat.adj[m] = IF LastCorrection(cat.hist, m).predicted # LastCorrection(cat.hist, m).actual
                      THEN -30 ELSE 20

\* ---------------------------------------------------------------- C30
\* the semantic tier of predict_category answered the call
SemanticTierAnswered ==
  /\ call.op = "predict_category"
  /\ call.result.error = ""
  /\ SemanticMiss(cat, merchant_mapping, Strip(call.merchant))
  /\ AboveThreshold(cat, Strip(call.merchant), call.threshold) # {}

\* C30 as stated: every merchant that has a confidence adjustment is a key of
\* the learned table.
C30_AdjustedAreLearned ==
  DOMAIN cat.adj \subseteq DOMAIN cat.known

\* C30: in every state reached from the empty categorizer by
\* record_correction, add_known_merchant and bulk_import_from_existing_data,
\* every merchant that has a confidence adjustment is, once stripped of its
\* surrounding whitespace, a key of the learned table; whenever the semantic
\* tier answers, the adjustment applied is 0 and the confidence is the best
\* similarity.
C30_AdjustedAreLearnedStripped ==
  /\ \A m \in DOMAIN cat.adj : Strip(m) \in DOMAIN cat.known
  /\ SemanticTierAnswered
       => /\ confidence_adjustment(cat.adj, Strip(call.merchant)) = 0
          /\ call.result.confidence =
               BestSimilarity(cat, Strip(call.merchant), call.threshold)

\* the semantic tier answered on an instance that holds an adjustment under
\* a key with surrounding whitespace
C30_Witness ==
  /\ SemanticTierAnswered
  /\ T_JoesPadded \in DOMAIN cat.adj
  /\ T_JoesPadded \notin DOMAIN cat.known
  /\ call.result.confidence = 82
=============================================================================
